---------------------------- MODULE Spec2Model ----------------------------
(***************************************************************************)
(* A model of the shadow calculator's core: the shadow geometry of         *)
(* Calculation/ShadowCalculations.py and DataModel/Shadow.py, the cached   *)
(* sun position provider of Calculation/Sun.py with DataModel/SunConfig.py,*)
(* the time specification of DataModel/TimeSpecification.py with its       *)
(* generator get_times and its parser parse_interval, the batch loop of    *)
(* ShadowCalculator.py, the point-in-polygon test of DataModel/Area.py and *)
(* the conversions of UnitConverter.py.                                    *)
(*                                                                         *)
(* Each part has its own specification over the same variables: SpecShadow,*)
(* SpecSun, SpecTime (SpecTimeLive with fairness), SpecParse, SpecCalc,    *)
(* SpecArea, SpecQuad, SpecUnit, SpecGeom (the geometry helpers of         *)
(* ShadowCalculations, each called on its own) and SpecPoly (the areas of  *)
(* a polygon read in floating point).                                      *)
(*                                                                         *)
(* Numbers.  Lengths and coordinates are integers in thousandths of the    *)
(* length unit ("milli").  Bearings and azimuths are whole degrees.  Solar *)
(* elevations are thousandths of a degree, so that the horizon threshold   *)
(* of 0.001 rad falls between two values of the model.  Timestamps are     *)
(* minutes and time zones fixed utc offsets.  sin, cos and 1/tan are       *)
(* tables to three decimals.  The values UnitConverter converts are fixed  *)
(* point numbers with eight decimals.  Strings whose characters matter are *)
(* sequences of one-character strings.                                     *)
(*                                                                         *)
(* Floats.  Where the rounding of Python's floats changes a result by more *)
(* than the model's resolution, or decides whether two results are equal,  *)
(* the model keeps what the resolution drops as a sign: a coordinate may   *)
(* carry a part far below a thousandth (x_low), and a quotient a residue.  *)
(* The shoelace sums of SpecPoly are computed in a binary floating point   *)
(* format of MantissaBits significant bits (a double has 53), rounding     *)
(* every product, sum and difference to the nearest value, ties to even;   *)
(* their coordinates are whole multiples of a quantum, which every float   *)
(* is, and their areas are in squares of that quantum.                     *)
(*                                                                         *)
(* Optional values.  Python's None is the empty sequence <<>> and a        *)
(* present value v is <<v>>.                                               *)
(***************************************************************************)
EXTENDS Integers, Sequences, FiniteSets, TLC

VARIABLES
    \* ShadowCalculations.calculate_shadow: the last call and what it did
    shadowCall,     \* <<>> or <<the arguments of the call>>
    vertices,       \* the list calculate_shadow_vertices returned (<<>> before a call)
    shadow,         \* <<>> or <<the Shadow the constructor returned>>
    shadowError,    \* "" or the message of the exception the call raised
    \* Sun: the lru_cache around Sun._calculate_position and the last call
    cache,          \* entries [key, value], least recently used first
    hits,           \* cache_info().hits
    misses,         \* cache_info().misses
    recent,         \* history: the keys looked up since the last clear, oldest use first
    lookups,        \* history: the calls since the last clear that reached the cache
    dropped,        \* history: the number of entries the last clear removed
    sunCall,        \* the last Sun call: its arguments, outcome and result
    \* TimeSpecification: the last construction
    timeArgs,       \* <<>> or <<the arguments given to the constructor>>
    timeSpec,       \* <<>> or <<the constructed object>>
    timeError,      \* "" or the message of the ValueError raised
    \* TimeSpecification.get_times: the generator and what it has yielded
    gen,            \* the generator: its state and the local variable current
    yielded,        \* the timestamps the running iteration has yielded so far
    runs,           \* the timestamps of each completed iteration, in order
    \* TimeSpecification.parse_interval: the last call
    intervalStr,    \* <<>> or <<the string given>>
    parsed,         \* <<>> or <<the outcome: the error raised or the timedelta>>
    \* ShadowCalculator.calculate: the calculator and the progress of the call
    calcArgs,       \* <<>> or <<the fields of the ShadowCalculator>>
    calc,           \* the call of calculate: where it stands and what it has built
    \* Area.contains_point: the area and point of the calls, and the answers
    areaCall,       \* <<>> or <<the Area and the Point of the calls>>
    contained,      \* the answers of the calls of contains_point so far
    quotients,      \* the turns of the last call's loop that computed the quotient
    areaError,      \* "" or the exception a call of contains_point raised
    \* Shadow.area: a Shadow made by its constructor and the area read from it
    quadShadow,     \* <<>> or <<the Shadow>>
    quadArea,       \* <<>> or <<the value of its area property>>
    \* UnitConverter: a value and a unit name, and the two conversions made with them
    unitCall,       \* <<>> or <<the value and the unit name>>
    toMeters,       \* <<>> or <<the outcome of convert_to_meters(value, unit)>>
    fromMeters,     \* <<>> or <<the outcome of the convert_from_meters that followed>>
    \* ShadowCalculations: one call of one of its geometry helpers
    geomCall,       \* <<>> or <<the helper called and its arguments>>
    geomResult,     \* <<>> or <<what the helper returned>>
    \* Area.area and Shadow.area in floating point
    polyVertices,   \* <<>> or <<the list of [x, y] the polygons are made of>>
    polyAreas       \* the areas read so far, each with the order of the vertices

shadowVars == <<shadowCall, vertices, shadow, shadowError>>
sunVars == <<cache, hits, misses, recent, lookups, dropped, sunCall>>
timeVars == <<timeArgs, timeSpec, timeError>>
iterVars == <<gen, yielded, runs>>
parseVars == <<intervalStr, parsed>>
calcVars == <<calcArgs, calc>>
areaVars == <<areaCall, contained, quotients, areaError>>
quadVars == <<quadShadow, quadArea>>
unitVars == <<unitCall, toMeters, fromMeters>>
geomVars == <<geomCall, geomResult>>
polyVars == <<polyVertices, polyAreas>>
vars == <<shadowCall, vertices, shadow, shadowError,
          cache, hits, misses, recent, lookups, dropped, sunCall,
          timeArgs, timeSpec, timeError,
          gen, yielded, runs,
          intervalStr, parsed,
          calcArgs, calc,
          areaCall, contained, quotients, areaError,
          quadShadow, quadArea,
          unitCall, toMeters, fromMeters,
          geomCall, geomResult,
          polyVertices, polyAreas>>

None == <<>>
Some(v) == <<v>>
Abs(n) == IF n < 0 THEN -n ELSE n

\* An aware timestamp (wall clock minutes, utc offset minutes) or a naive one.
DateTime(w, a, o) == [wall |-> w, aware |-> a, off |-> o]
\* The instant an aware timestamp denotes.
Instant(t) == t.wall - t.off

(***************************************************************************)
(* Bounds of the model.                                                    *)
(***************************************************************************)
\* Wall end points lie on the grid 0..GridMax x 0..GridMax (whole units).
GridMax == 2
\* Wall heights are 1..MaxHeight whole units.
MaxHeight == 2

\* Floats have MantissaBits significant bits.
MantissaBits == 12

(***************************************************************************)
(* Floating point: the rounding of the result of every operation.          *)
(***************************************************************************)
RECURSIVE Pow2(_)
Pow2(k) == IF k = 0 THEN 1 ELSE 2 * Pow2(k - 1)

\* The distance between neighbouring floats around a: the least power of
\* two e, from the given one on, with a < 2^MantissaBits * e.
RECURSIVE Spacing(_, _)
Spacing(a, e) == IF a < Pow2(MantissaBits) * e THEN e ELSE Spacing(a, 2 * e)

\* The float nearest to the exact result n of an operation, ties to even.
Fl(n) ==
    LET e == Spacing(Abs(n), 1)
        q == Abs(n) \div e
        r == Abs(n) % e
        up == 2 * r > e \/ (2 * r = e /\ q % 2 = 1)
        a == (IF up THEN q + 1 ELSE q) * e
    IN IF n < 0 THEN -a ELSE a

(***************************************************************************)
(* Trigonometry, as tables.                                                *)
(***************************************************************************)
\* round(1000 * sin(d degrees)) for d = 0..90
SinTable ==
    << 0, 17, 35, 52, 70, 87, 105, 122, 139, 156, 174, 191, 208,
       225, 242, 259, 276, 292, 309, 326, 342, 358, 375, 391, 407, 423,
       438, 454, 469, 485, 500, 515, 530, 545, 559, 574, 588, 602, 616,
       629, 643, 656, 669, 682, 695, 707, 719, 731, 743, 755, 766, 777,
       788, 799, 809, 819, 829, 839, 848, 857, 866, 875, 883, 891, 899,
       906, 914, 921, 927, 934, 940, 946, 951, 956, 961, 966, 970, 974,
       978, 982, 985, 988, 990, 993, 995, 996, 998, 999, 999, 1000, 1000 >>

\* 1000 * math.sin(math.radians(d)) for a whole bearing d in 0..359
SinMilli(d) ==
    IF d <= 90 THEN SinTable[d + 1]
    ELSE IF d <= 180 THEN SinTable[180 - d + 1]
    ELSE IF d <= 270 THEN -SinTable[d - 180 + 1]
    ELSE -SinTable[360 - d + 1]

\* 1000 * math.cos(math.radians(d))
CosMilli(d) == SinMilli((d + 90) % 360)

\* a * s / 1000 for a length a (milli) and a table value s, rounded towards
\* zero, computed in two parts so that no product leaves 32 bits.
MulMilli(a, s) ==
    LET m == Abs(a)
        t == Abs(s)
        p == (m \div 1000) * t + ((m % 1000) * t) \div 1000
    IN IF (a < 0) = (s < 0) THEN p ELSE -p

\* math.degrees(math.atan2(dy, dx)) for the vectors whose angle is a whole
\* number of degrees: the eight compass directions, and atan2(0, 0) = 0.
Atan2Deg(dy, dx) ==
    CASE dy = 0 /\ dx >= 0 -> 0
      [] dy = 0 /\ dx < 0 -> 180
      [] dx = 0 /\ dy > 0 -> 90
      [] dx = 0 /\ dy < 0 -> -90
      [] dy = dx /\ dx > 0 -> 45
      [] dy = dx /\ dx < 0 -> -135
      [] dy = -dx /\ dx > 0 -> -45
      [] dy = -dx /\ dx < 0 -> 135

\* math.radians(e) in millionths of a radian, e in thousandths of a degree
RadMicro(e) == (e * 17453) \div 1000

\* 1000 / math.tan(math.radians(e)) for the elevations of the model above
\* the horizon threshold
CotMilli(e) ==
    CASE e = 58 -> 987858
      [] e = 1000 -> 57290
      [] e = 30000 -> 1732
      [] e = 45000 -> 1000
      [] e = 60000 -> 577
      [] e = 90000 -> 0

(***************************************************************************)
(* DataModel/Point.py, DataModel/Wall.py                                   *)
(***************************************************************************)
Point(x, y) == [x |-> x, y |-> y]

Wall(name, height, start_point, end_point) ==
    [name |-> name, height |-> height,
     start_point |-> start_point, end_point |-> end_point]

(***************************************************************************)
(* Calculation/ShadowCalculations.py                                       *)
(***************************************************************************)
\* the default of tolerance_degrees
DefaultTolerance == 5

\* The sign of the part of a point's x coordinate that lies below the
\* model's resolution, for the points that carry one: a displacement of
\* about 1e-16 of the wall's length (x = -1e-13 for a wall 1000 long).
LowX(p) == IF "x_low" \in DOMAIN p THEN p.x_low ELSE 0

\* math.degrees(math.atan2(dy, dx)) against the whole number of degrees of
\* Atan2Deg, for a vector (dx + dx_low, dy): 1 where it is the float next
\* above (90.00000000000001 for a vector a hair west of north), 0 where
\* the hair is lost in the rounding of atan2.
Atan2Above(dy, dx, dx_low) == IF dx = 0 /\ dy > 0 /\ dx_low < 0 THEN 1 ELSE 0

\* Python's a % 360 for the float a = whole + low * 1.4e-14.  For a just
\* below a multiple of 360 the remainder 360 - 1.4e-14 is not a float and
\* is rounded to 360.0; elsewhere the part below the resolution is dropped.
FloatMod360(whole, low) ==
    IF whole % 360 = 0 /\ low < 0 THEN 360 ELSE whole % 360

calculate_wall_direction(wall) ==
    LET dx == wall.end_point.x - wall.start_point.x
        dy == wall.end_point.y - wall.start_point.y
        dx_low == LowX(wall.end_point) - LowX(wall.start_point)
        math_angle == Atan2Deg(dy, dx)
        above == Atan2Above(dy, dx, dx_low)
    IN FloatMod360(90 - math_angle, -above)

\* A variant whose boundary is exclusive.
is_sun_parallel_exclusive(wall_direction, shadow_direction, tolerance_degrees) ==
    LET sun_direction == (shadow_direction + 180) % 360
        angle_diff == Abs((sun_direction - wall_direction) % 360)
    IN \/ angle_diff < tolerance_degrees
       \/ Abs(angle_diff - 180) < tolerance_degrees

is_sun_parallel(wall_direction, shadow_direction, tolerance_degrees) ==
    LET sun_direction == (shadow_direction + 180) % 360
        angle_diff == Abs((sun_direction - wall_direction) % 360)
    IN \/ angle_diff <= tolerance_degrees
       \/ Abs(angle_diff - 180) <= tolerance_degrees

\* A variant that clamps below 0.0011 rad.
calculate_shadow_length_wide_clamp(wall_height, solar_elevation) ==
    IF RadMicro(solar_elevation) < 1100
    THEN wall_height * 1000
    ELSE MulMilli(wall_height, CotMilli(solar_elevation))

\* wall_height in milli; the result in milli
calculate_shadow_length(wall_height, solar_elevation) ==
    IF RadMicro(solar_elevation) < 1000
    THEN wall_height * 1000
    ELSE MulMilli(wall_height, CotMilli(solar_elevation))

\* The sign of what the table of CotMilli leaves out of the float
\* 1 / math.tan(math.radians(e)): 1 where the float is above the table's
\* value, -1 where it is below.  At 45 degrees math.tan returns
\* 0.9999999999999999 and the quotient is the float next above 1.
CotResidue(e) ==
    CASE e = 58 -> -1
      [] e = 1000 -> -1
      [] e = 30000 -> 1
      [] e = 45000 -> 1
      [] e = 60000 -> 1
      [] e = 90000 -> 1

\* The float calculate_shadow_length returns against its value in the
\* model, for a wall of positive height: the product wall_height * 1000 is
\* exact (0), the quotient by math.tan has the residue of the table.
ShadowLengthResidue(wall_height, solar_elevation) ==
    IF RadMicro(solar_elevation) < 1000 THEN 0
    ELSE CotResidue(solar_elevation)

calculate_shadow_direction(solar_azimuth) == (solar_azimuth + 180) % 360

\* A variant whose parallel branch casts the shadow end from the wall start
\* instead of the wall midpoint.
calculate_shadow_vertices_from_start(wall, shadow_length, shadow_direction) ==
    LET wall_direction == calculate_wall_direction(wall)
        dx == MulMilli(shadow_length, SinMilli(shadow_direction))
        dy == MulMilli(shadow_length, CosMilli(shadow_direction))
    IN IF is_sun_parallel(wall_direction, shadow_direction, DefaultTolerance)
       THEN << wall.start_point, wall.end_point,
               Point(wall.start_point.x + dx, wall.start_point.y + dy),
               wall.start_point >>
       ELSE << wall.start_point, wall.end_point,
               Point(wall.end_point.x + dx, wall.end_point.y + dy),
               Point(wall.start_point.x + dx, wall.start_point.y + dy),
               wall.start_point >>

calculate_shadow_vertices(wall, shadow_length, shadow_direction) ==
    LET wall_direction == calculate_wall_direction(wall)
        dx == MulMilli(shadow_length, SinMilli(shadow_direction))
        dy == MulMilli(shadow_length, CosMilli(shadow_direction))
    IN IF is_sun_parallel(wall_direction, shadow_direction, DefaultTolerance)
       THEN LET wall_mid_x == (wall.start_point.x + wall.end_point.x) \div 2
                wall_mid_y == (wall.start_point.y + wall.end_point.y) \div 2
                shadow_end == Point(wall_mid_x + dx, wall_mid_y + dy)
            IN << wall.start_point, wall.end_point, shadow_end,
                  wall.start_point >>
       ELSE LET shadow_start == Point(wall.start_point.x + dx,
                                      wall.start_point.y + dy)
                shadow_end == Point(wall.end_point.x + dx,
                                    wall.end_point.y + dy)
            IN << wall.start_point, wall.end_point, shadow_end,
                  shadow_start, wall.start_point >>

(***************************************************************************)
(* DataModel/Shadow.py                                                     *)
(***************************************************************************)
\* Shadow.__post_init__: "" when the object is accepted, else the message
ShadowPostInit(vs) ==
    IF Len(vs) # 4 THEN "Shadow must have exactly 4 vertices" ELSE ""

ShadowRecord(wall, time, vs, solar_elevation, solar_azimuth) ==
    [wall |-> wall, time |-> time, vertices |-> vs,
     solar_elevation |-> solar_elevation, solar_azimuth |-> solar_azimuth]

\* A variant that closes the polygon with its last vertex again, so that
\* the edge from the last vertex to the first is left out.
ClosedWithLast(coords) == Append(coords, coords[Len(coords)])

\* "x_coords.append(x_coords[0])"
Closed(coords) == Append(coords, coords[1])

\* The loop "for i in range(len(self.vertices))" of Shadow.area from turn i
\* on: area += x[i] * y[i+1]; area -= y[i] * x[i+1].
RECURSIVE ShoelaceLoop(_, _, _, _, _)
ShoelaceLoop(x_coords, y_coords, n, i, acc) ==
    IF i > n THEN acc
    ELSE ShoelaceLoop(x_coords, y_coords, n, i + 1,
                      acc + x_coords[i] * y_coords[i + 1]
                          - y_coords[i] * x_coords[i + 1])

\* Shadow.area: abs(area) / 2, for coordinates in milli that are whole
\* units, in millionths of the square unit.
ShadowArea(self) ==
    LET n == Len(self.vertices)
        x_coords == Closed([i \in 1..n |-> self.vertices[i].x])
        y_coords == Closed([i \in 1..n |-> self.vertices[i].y])
    IN Abs(ShoelaceLoop(x_coords, y_coords, n, 1, 0)) \div 2

\* The same loop in floating point: each of "x[i] * y[i+1]", "area += ..",
\* "y[i] * x[i+1]" and "area -= .." rounds its result.
RECURSIVE ShoelaceLoopFloat(_, _, _, _, _)
ShoelaceLoopFloat(x_coords, y_coords, n, i, acc) ==
    IF i > n THEN acc
    ELSE LET added == Fl(acc + Fl(x_coords[i] * y_coords[i + 1]))
         IN ShoelaceLoopFloat(x_coords, y_coords, n, i + 1,
                              Fl(added - Fl(y_coords[i] * x_coords[i + 1])))

\* Shadow.area in floating point, for coordinates that are even multiples
\* of the quantum: abs(area) / 2, the halving exact as in binary floats.
ShadowAreaFloat(self) ==
    LET n == Len(self.vertices)
        x_coords == Closed([i \in 1..n |-> self.vertices[i].x])
        y_coords == Closed([i \in 1..n |-> self.vertices[i].y])
    IN Abs(ShoelaceLoopFloat(x_coords, y_coords, n, 1, 0)) \div 2

\* ShadowCalculations.calculate_shadow, as the values it leaves behind:
\* the vertex list it computed, the Shadow (if constructed) and the error.
calculate_shadow(wall, solar_elevation, solar_azimuth, time) ==
    LET shadow_length ==
            calculate_shadow_length(wall.height, solar_elevation)
        shadow_direction == calculate_shadow_direction(solar_azimuth)
        vs == calculate_shadow_vertices(wall, shadow_length, shadow_direction)
        err == ShadowPostInit(vs)
    IN [vertices |-> vs,
        error |-> err,
        shadow |-> IF err = "" THEN Some(ShadowRecord(wall, time, vs,
                                         solar_elevation, solar_azimuth))
                   ELSE None]


(***************************************************************************)
(* DataModel/SunConfig.py                                                  *)
(***************************************************************************)
SunConfig(override_position, elevation, azimuth) ==
    [override_position |-> override_position,
     elevation |-> elevation, azimuth |-> azimuth]

\* A variant without the azimuth range check.
SunConfigPostInitNoAzimuth(cfg) ==
    IF cfg.override_position
    THEN IF cfg.elevation = None \/ cfg.azimuth = None
         THEN "both elevation and azimuth must be specified"
         ELSE IF ~(0 <= cfg.elevation[1] /\ cfg.elevation[1] <= 90000)
         THEN "Invalid elevation"
         ELSE ""
    ELSE ""

\* SunConfig.__post_init__: "" when the object is accepted, else the message
SunConfigPostInit(cfg) ==
    IF cfg.override_position
    THEN IF cfg.elevation = None \/ cfg.azimuth = None
         THEN "both elevation and azimuth must be specified"
         ELSE IF ~(0 <= cfg.elevation[1] /\ cfg.elevation[1] <= 90000)
         THEN "Invalid elevation"
         ELSE IF ~(0 <= cfg.azimuth[1] /\ cfg.azimuth[1] <= 360)
         THEN "Invalid azimuth"
         ELSE ""
    ELSE ""

\* The constructor arguments tried.
SunConfigInputs ==
    { SunConfig(FALSE, None, None),
      SunConfig(FALSE, Some(91000), Some(361)),
      SunConfig(TRUE, None, Some(180)),
      SunConfig(TRUE, Some(45000), Some(180)),
      SunConfig(TRUE, Some(45000), Some(360)),
      SunConfig(TRUE, Some(45000), Some(361)),
      SunConfig(TRUE, Some(91000), Some(180)) }

\* The SunConfig objects that exist: those the constructor did not reject.
SunConfigs == { cfg \in SunConfigInputs : SunConfigPostInit(cfg) = "" }

(***************************************************************************)
(* Calculation/Sun.py                                                      *)
(***************************************************************************)
\* The model's cache capacity.  The source sets CACHE_SIZE = 1024; the
\* model scales it down so that a full cache and an eviction are reached.
ModelCacheSize == 2
CACHE_SIZE == ModelCacheSize

\* The number of cache lookups (hits + misses) between two clears is capped.
MaxCalls == 4

\* The number of times get_times is iterated on one object.
MaxRuns == 2

\* The longest string given to parse_interval.
MaxStrLen == 3

\* The longest list of walls given to a ShadowCalculator.
MaxWalls == 2

\* Points tested against an area have whole coordinates -1..PointMax.
PointMax == 15

\* The number of times contains_point is asked the same question.
MaxQueries == 2

\* Values converted between units are at most MaxUnits whole units.
MaxUnits == 10

SunPosition(azimuth, elevation, time) ==
    [azimuth |-> azimuth, elevation |-> elevation, time |-> time]

\* datetime.isoformat() and datetime.fromisoformat(): the string is the
\* wall clock followed, for an aware timestamp, by its utc offset.
IsoFormat(time) ==
    IF time.aware THEN <<time.wall, time.off>> ELSE <<time.wall>>

FromIsoFormat(time_str) ==
    IF Len(time_str) = 2
    THEN DateTime(time_str[1], TRUE, time_str[2])
    ELSE DateTime(time_str[1], FALSE, 0)

\* astral's azimuth(observer, time) and elevation(observer, time): the
\* external ephemeris, a fixed function of the place and the instant.  The
\* sun turns one degree in four minutes and stands in the south at 12:00
\* utc on longitude 0; its azimuth lies in [0, 360).
AstralAzimuth(latitude, longitude, time) ==
    (Instant(time) \div 4 + longitude) % 360

AstralElevation(latitude, longitude, time) ==
    LET az == AstralAzimuth(latitude, longitude, time)
        el == 90 - Abs(latitude) - Abs(az - 180) \div 2
    IN 1000 * (IF el < -90 THEN -90 ELSE el)

\* Sun._calculate_position, the function behind the cache
_calculate_position(latitude, longitude, time_str) ==
    LET time == FromIsoFormat(time_str)
    IN << AstralAzimuth(latitude, longitude, time),
          AstralElevation(latitude, longitude, time) >>

\* Sun.validate_coordinates: "" or the message of the ValueError
validate_coordinates(latitude, longitude) ==
    IF ~(-90 <= latitude /\ latitude <= 90) THEN "Invalid latitude"
    ELSE IF ~(-180 <= longitude /\ longitude <= 180) THEN "Invalid longitude"
    ELSE ""

\* functools.lru_cache(maxsize=CACHE_SIZE): the key of a call, the lookup,
\* the move of a hit entry to the most recent place, the insertion of a
\* missed entry with the eviction of the least recently used one.
LruKey(latitude, longitude, time_str) == <<latitude, longitude, time_str>>

\* A variant whose lookup finds nothing.
LruHitNever(c, key) == FALSE

LruHit(c, key) == \E i \in 1..Len(c) : c[i].key = key

\* The place of the entry of a cached key.
LruIndex(c, key) == CHOOSE i \in 1..Len(c) : c[i].key = key

LruWithout(c, key) == SelectSeq(c, LAMBDA e : e.key # key)

\* A variant that leaves a hit entry in its place (first in, first out).
LruTouchInPlace(c, key) == c

LruTouch(c, key) == Append(LruWithout(c, key), c[LruIndex(c, key)])

\* A variant that never evicts.
LruInsertUnbounded(c, key, value) == Append(c, [key |-> key, value |-> value])

LruInsert(c, key, value) ==
    LET e == [key |-> key, value |-> value]
    IN IF Len(c) >= CACHE_SIZE THEN Append(Tail(c), e) ELSE Append(c, e)

\* A variant that ignores the override.
UseOverrideNever(sun_config) == FALSE

\* "if sun_config and sun_config.override_position"
UseOverride(sun_config) ==
    sun_config # None /\ sun_config[1].override_position

\* The call is one with a timezone-aware time and without an override in
\* force: the kind of call that goes on to Sun._calculate_position.
ReachesCache(time, sun_config) ==
    /\ time.aware
    /\ ~(sun_config # None /\ sun_config[1].override_position)

\* Sun.get_position, as what one call does: the error raised ("" if none),
\* the SunPosition returned, the cache and its counters afterwards, whether
\* the ephemeris was consulted and what the cache counted.
get_position(latitude, longitude, time, sun_config, c, h, m) ==
    LET quiet == [error |-> "", position |-> None, cache |-> c, hits |-> h,
                  misses |-> m, ephemeris |-> FALSE, event |-> "none"]
    IN IF ~time.aware
       THEN [quiet EXCEPT !.error = "Time must be timezone-aware"]
       ELSE IF UseOverride(sun_config)
       THEN [quiet EXCEPT !.position =
                Some(SunPosition(sun_config[1].azimuth[1],
                                 sun_config[1].elevation[1], time))]
       ELSE LET time_str == IsoFormat(time)
                key == LruKey(latitude, longitude, time_str)
            IN IF LruHit(c, key)
               THEN LET v == c[LruIndex(c, key)].value
                    IN [quiet EXCEPT
                          !.position = Some(SunPosition(v[1], v[2], time)),
                          !.cache = LruTouch(c, key),
                          !.hits = h + 1,
                          !.event = "hit"]
               ELSE LET v == _calculate_position(latitude, longitude, time_str)
                    IN [quiet EXCEPT
                          !.position = Some(SunPosition(v[1], v[2], time)),
                          !.cache = LruInsert(c, key, v),
                          !.misses = m + 1,
                          !.ephemeris = TRUE,
                          !.event = "miss"]

(***************************************************************************)
(* DataModel/TimeSpecification.py                                          *)
(***************************************************************************)
TimeSpecification(point_time, start_time, end_time, interval, default_timezone) ==
    [point_time |-> point_time, start_time |-> start_time,
     end_time |-> end_time, interval |-> interval,
     default_timezone |-> default_timezone]

\* Python's truth value of an Optional[datetime]: every datetime is true.
TruthyTime(t) == t # None
\* Python's truth value of an Optional[timedelta]: timedelta(0) is false.
TruthyDelta(d) == d # None /\ d[1] # 0

\* zoneinfo.ZoneInfo(name): the utc offset of a known zone (standard time),
\* <<>> for a name that raises ZoneInfoNotFoundError.
ZoneInfo(name) ==
    CASE name = "America/Denver" -> Some(-420)
      [] name = "UTC" -> Some(0)
      [] OTHER -> None

\* A variant that leaves a naive timestamp naive.
WithDefaultZoneSkipped(t, off) == t

\* datetime.replace(tzinfo=tz) on an Optional[datetime] that is naive
WithDefaultZone(t, off) ==
    IF t # None /\ ~t[1].aware THEN Some(DateTime(t[1].wall, TRUE, off)) ELSE t

\* A variant that lets an end equal to the start pass.
EndBeforeStart(start_time, end_time) ==
    Instant(end_time) < Instant(start_time)

\* end_time <= start_time, on aware timestamps
EndNotAfterStart(start_time, end_time) ==
    Instant(end_time) <= Instant(start_time)

\* interval <= timedelta(0)
IntervalNotPositive(interval) == interval <= 0

\* The most timestamps a range may expand to ("if total_points > 1000").
MaxPoints == 1000

\* TimeSpecification.__post_init__ on the fields the constructor stored:
\* the message of the ValueError ("" if none) and the fields afterwards.
TimeSpecPostInit(self) ==
    LET tz == ZoneInfo(self.default_timezone)
        zoned == [self EXCEPT
                    !.point_time = WithDefaultZone(@, tz[1]),
                    !.start_time = WithDefaultZone(@, tz[1]),
                    !.end_time = IF TruthyTime(self.start_time)
                                 THEN WithDefaultZone(@, tz[1]) ELSE @]
        fail(msg) == [error |-> msg, self |-> self]
    IN IF self.point_time # None
          /\ (TruthyTime(self.start_time) \/ TruthyTime(self.end_time)
              \/ TruthyDelta(self.interval))
       THEN fail("Cannot specify both point time and time range")
       ELSE IF self.point_time = None
               /\ ~(TruthyTime(self.start_time) /\ TruthyTime(self.end_time)
                    /\ TruthyDelta(self.interval))
       THEN fail("Must specify all range parameters")
       ELSE IF tz = None
       THEN fail("Invalid timezone")
       ELSE IF TruthyTime(self.start_time)
               /\ EndNotAfterStart(zoned.start_time[1], zoned.end_time[1])
       THEN fail("End time must be after start time")
       ELSE IF TruthyTime(self.start_time)
               /\ IntervalNotPositive(self.interval[1])
       THEN fail("Interval must be positive")
       ELSE IF TruthyTime(self.start_time)
               /\ (Instant(zoned.end_time[1]) - Instant(zoned.start_time[1]))
                    > MaxPoints * self.interval[1]
       THEN fail("Time range too large")
       ELSE [error |-> "", self |-> zoned]

\* TimeSpecification.is_point, is_range
is_point(self) == self.point_time # None
is_range(self) == self.start_time # None

\* The generator object of get_times: not started, suspended at a yield
\* with the local variable current, or finished.
Generator(state, current) == [state |-> state, current |-> current]

\* A variant of the loop condition that stops before the end time.
BeforeEnd(current, end_time) == Instant(current) < Instant(end_time)

\* "while current <= self.end_time", on aware timestamps
WithinRange(current, end_time) == Instant(current) <= Instant(end_time)

\* "current += self.interval": the wall clock moves, the zone stays
PlusInterval(current, interval) ==
    DateTime(current.wall + interval, current.aware, current.off)

\* A variant that resumes where the previous iteration stopped.
GenStartResumed(self) ==
    IF runs # <<>> /\ runs[Len(runs)] # <<>>
    THEN runs[Len(runs)][Len(runs[Len(runs)])]
    ELSE self.start_time[1]

\* "current = self.start_time"
GenStart(self) == self.start_time[1]

\* One next() on the generator g of self.get_times(): the generator
\* afterwards and the timestamp yielded (<<>> when it raised StopIteration).
get_times(self, g) ==
    IF is_point(self)
    THEN IF g.state = "created"
         THEN [gen |-> Generator("suspended", None), yield |-> self.point_time]
         ELSE [gen |-> Generator("done", None), yield |-> None]
    ELSE LET current == IF g.state = "created" THEN GenStart(self)
                        ELSE PlusInterval(g.current[1], self.interval[1])
         IN IF WithinRange(current, self.end_time[1])
            THEN [gen |-> Generator("suspended", Some(current)),
                  yield |-> Some(current)]
            ELSE [gen |-> Generator("done", None), yield |-> None]

(***************************************************************************)
(* ShadowCalculator.py                                                     *)
(***************************************************************************)
\* The fields of a ShadowCalculator that calculate reads.
ShadowCalculator(location, walls, time_spec, sun_config) ==
    [location |-> location, walls |-> walls, time_spec |-> time_spec,
     sun_config |-> sun_config]

\* The call of calculate: its state ("none" before the call, "iterating"
\* in the list comprehension, "walls" in the loop of calculate_for_time,
\* "returned", "raised"), the lists collected, the locals of
\* calculate_for_time, and two counts: the sun positions requested and the
\* calls of calculate_shadow made.
NoCalc ==
    [state |-> "none", error |-> "", results |-> <<>>, time |-> None,
     sun_position |-> None, shadows |-> <<>>, sunRequests |-> 0,
     shadowCalls |-> 0]

\* A variant that puts the new Shadow at the front of the list.
PrependShadow(shadows, new) == <<new>> \o shadows

\* "shadows.append(shadow)"
AppendShadow(shadows, new) == Append(shadows, new)

(***************************************************************************)
(* DataModel/Area.py                                                       *)
(***************************************************************************)
\* An Area: vertices is the list of raw [x, y] lists, in whole units.
Area(name, raw_vertices, units) ==
    [name |-> name, vertices |-> raw_vertices, units |-> units]

\* Area.__post_init__: "" when the object is accepted, else the message
AreaPostInit(self) ==
    IF Len(self.vertices) < 3 THEN "Area must have at least 3 vertices"
    ELSE IF \E i \in 1..Len(self.vertices) : Len(self.vertices[i]) # 2
    THEN "Vertex must be a list of [x, y]"
    ELSE ""

\* A variant that leaves out the "+ x[i]" of the crossing abscissa.
RayCrossesEdgeNoOffset(px, py, x1, y1, x2, y2) ==
    /\ (y1 > py) # (y2 > py)
    /\ IF y2 - y1 > 0 THEN px * (y2 - y1) < (x2 - x1) * (py - y1)
       ELSE px * (y2 - y1) > (x2 - x1) * (py - y1)

\* A variant of the crossing test whose comparison admits equality.
RayCrossesEdgeInclusive(px, py, x1, y1, x2, y2) ==
    /\ (y1 > py) # (y2 > py)
    /\ IF y2 - y1 > 0 THEN (px - x1) * (y2 - y1) <= (x2 - x1) * (py - y1)
       ELSE (px - x1) * (y2 - y1) >= (x2 - x1) * (py - y1)

\* The condition of the ray casting loop for the edge from (x1, y1) to
\* (x2, y2):  (y1 > py) != (y2 > py) and
\*            px < (x2 - x1) * (py - y1) / (y2 - y1) + x1,
\* the division cleared by multiplying with y2 - y1, which is not zero when
\* the first condition holds.
RayCrossesEdge(px, py, x1, y1, x2, y2) ==
    /\ (y1 > py) # (y2 > py)
    /\ IF y2 - y1 > 0 THEN (px - x1) * (y2 - y1) < (x2 - x1) * (py - y1)
       ELSE (px - x1) * (y2 - y1) > (x2 - x1) * (py - y1)

\* The loop "for i in range(len(x) - 1)" from turn i on, x and y being the
\* vertex coordinates with the first vertex appended; coordinates in milli.
RECURSIVE RayCast(_, _, _, _, _, _)
RayCast(x, y, px, py, i, inside) ==
    IF i > Len(x) - 1 THEN inside
    ELSE RayCast(x, y, px, py, i + 1,
                 IF RayCrossesEdge(px, py, x[i], y[i], x[i + 1], y[i + 1])
                 THEN ~inside ELSE inside)

\* A variant of the loop of Area.area that adds the two products.
RECURSIVE AreaLoopSum(_, _, _, _, _)
AreaLoopSum(x, y, n, i, acc) ==
    IF i > n THEN acc
    ELSE AreaLoopSum(x, y, n, i + 1,
                     Fl(acc + Fl(Fl(x[i] * y[i + 1]) + Fl(x[i + 1] * y[i]))))

\* The loop "for i in range(len(x) - 1)" of Area.area from turn i on, in
\* floating point: area += x[i] * y[i + 1] - x[i + 1] * y[i], where the
\* two products, their difference and the sum each round their result.
RECURSIVE AreaLoop(_, _, _, _, _)
AreaLoop(x, y, n, i, acc) ==
    IF i > n THEN acc
    ELSE AreaLoop(x, y, n, i + 1,
                  Fl(acc + Fl(Fl(x[i] * y[i + 1]) - Fl(x[i + 1] * y[i]))))

\* Area.area in floating point, as the magnitude of the Quantity returned,
\* for coordinates that are even multiples of the quantum: x and y with
\* the first vertex appended, then abs(area) / 2, the halving exact as in
\* binary floats.
AreaArea(self) ==
    LET n == Len(self.vertices)
        x == Append([i \in 1..n |-> self.vertices[i][1]], self.vertices[1][1])
        y == Append([i \in 1..n |-> self.vertices[i][2]], self.vertices[1][2])
    IN Abs(AreaLoop(x, y, n, 1, 0)) \div 2

\* A variant that computes the quotient in every turn.
QuotientEvaluatedAlways(py, y1, y2) == TRUE

\* Python's "a and b" evaluates b only when a is true: the quotient in the
\* second operand of the loop's condition is computed only in the turns
\* whose first operand, (y[i] > point_y) != (y[i + 1] > point_y), holds.
QuotientEvaluated(py, y1, y2) == (y1 > py) # (y2 > py)

\* The turns of the loop, from turn i on, that compute the quotient with
\* the divisor y[i + 1] - y[i], in order; a turn whose divisor is zero
\* raises ZeroDivisionError and is the last.
RECURSIVE QuotientTurns(_, _, _)
QuotientTurns(y, py, i) ==
    IF i > Len(y) - 1 THEN <<>>
    ELSE IF ~QuotientEvaluated(py, y[i], y[i + 1])
    THEN QuotientTurns(y, py, i + 1)
    ELSE IF y[i + 1] - y[i] = 0 THEN << i >>
    ELSE << i >> \o QuotientTurns(y, py, i + 1)

\* The y coordinates of the vertices with the first appended, in milli.
ClosedY(self) ==
    LET n == Len(self.vertices)
    IN [i \in 1..(n + 1) |->
          1000 * self.vertices[IF i = n + 1 THEN 1 ELSE i][2]]

\* What a call of contains_point leaves behind besides its answer: the
\* turns that computed the quotient, and the exception raised ("" if none).
contains_point_division(self, point) ==
    LET y == ClosedY(self)
        turns == QuotientTurns(y, point.y, 1)
        last == turns[Len(turns)]
    IN [quotients |-> turns,
        error |-> IF turns # <<>> /\ y[last + 1] - y[last] = 0
                  THEN "ZeroDivisionError" ELSE ""]

\* Area.contains_point, for a point given in the units of the area
contains_point(self, point) ==
    LET n == Len(self.vertices)
        x == [i \in 1..(n + 1) |->
                1000 * self.vertices[IF i = n + 1 THEN 1 ELSE i][1]]
        y == [i \in 1..(n + 1) |->
                1000 * self.vertices[IF i = n + 1 THEN 1 ELSE i][2]]
    IN RayCast(x, y, point.x, point.y, 1, FALSE)

(***************************************************************************)
(* UnitConverter.py                                                        *)
(***************************************************************************)
\* Values are fixed point numbers with eight decimals: ValueScale stands
\* for 1.0.  Every multiplication and division rounds to the nearest value.
ValueScale == 10000 * 10000

\* str.lower(), letter by letter
UpperChars == << "A", "B", "C", "D", "E", "F", "G", "H", "I", "J", "K", "L", "M", "N", "O", "P", "Q", "R", "S", "T", "U", "V", "W", "X", "Y", "Z" >>
LowerChars == << "a", "b", "c", "d", "e", "f", "g", "h", "i", "j", "k", "l", "m", "n", "o", "p", "q", "r", "s", "t", "u", "v", "w", "x", "y", "z" >>

Lower(unit) ==
    [i \in 1..Len(unit) |->
        IF \E k \in 1..Len(UpperChars) : UpperChars[k] = unit[i]
        THEN LowerChars[CHOOSE k \in 1..Len(UpperChars) : UpperChars[k] = unit[i]]
        ELSE unit[i]]

\* UNIT_CONVERSIONS, the factors in ten-thousandths (0.3048 is 3048)
UNIT_CONVERSIONS ==
    ( << "m", "e", "t", "e", "r", "s" >> :> 10000 @@ << "m" >> :> 10000
      @@ << "f", "e", "e", "t" >> :> 3048 @@ << "f", "t" >> :> 3048
      @@ << "i", "n", "c", "h", "e", "s" >> :> 254 @@ << "i", "n" >> :> 254
      @@ << "c", "e", "n", "t", "i", "m", "e", "t", "e", "r", "s" >> :> 100
      @@ << "c", "m" >> :> 100 )

\* (a * b) / c rounded to the nearest integer, for a of either sign and
\* 0 < b, c <= 10000, computed in two parts so that no product leaves 32 bits
MulDivRound(a, b, c) ==
    LET m == Abs(a)
        q == m \div c
        r == m % c
        p == q * b + (r * b + c \div 2) \div c
    IN IF a < 0 THEN -p ELSE p

\* "value * factor"
TimesFactor(value, factor) == MulDivRound(value, factor, 10000)

\* A variant of the division that multiplies.
OverFactorInverted(value, factor) == MulDivRound(value, factor, 10000)

\* "value / factor"
OverFactor(value, factor) == MulDivRound(value, 10000, factor)

\* UnitConverter.is_valid_unit
is_valid_unit(unit) == Lower(unit) \in DOMAIN UNIT_CONVERSIONS

\* UnitConverter.convert_to_meters: the error raised ("" if none) and the
\* value returned
convert_to_meters(value, unit) ==
    LET lowered == Lower(unit)
    IN IF ~is_valid_unit(lowered)
       THEN [error |-> "Unsupported unit", value |-> None]
       ELSE [error |-> "",
             value |-> Some(TimesFactor(value, UNIT_CONVERSIONS[lowered]))]

\* UnitConverter.convert_from_meters
convert_from_meters(value, unit) ==
    LET lowered == Lower(unit)
    IN IF ~is_valid_unit(lowered)
       THEN [error |-> "Unsupported unit", value |-> None]
       ELSE [error |-> "",
             value |-> Some(OverFactor(value, UNIT_CONVERSIONS[lowered]))]

(***************************************************************************)
(* Strings, for TimeSpecification.parse_interval                           *)
(***************************************************************************)
\* Strings are sequences of characters.  The decimal digits, in order of
\* their value, and the newline character.
DigitChars == << "0", "1", "2", "3", "4", "5", "6", "7", "8", "9" >>
Newline == "\n"

\* The regular expression class \d, on the characters of the model
IsDigit(c) == \E i \in 1..Len(DigitChars) : DigitChars[i] = c

\* The length of the longest run of digits at the start of s: what the
\* greedy (\d+) consumes.
DigitRun(s) ==
    CHOOSE n \in 0..Len(s) :
        /\ \A i \in 1..n : IsDigit(s[i])
        /\ n = Len(s) \/ ~IsDigit(s[n + 1])

\* re.match(r"^(\d+)([mh])$", s): <<>> for no match, else <<the groups>>.
\* Without re.MULTILINE, $ matches at the end of the string and also just
\* before a newline that ends the string.
ReMatchInterval(s) ==
    LET n == DigitRun(s)
    IN IF /\ n >= 1
          /\ Len(s) >= n + 1
          /\ s[n + 1] \in {"m", "h"}
          /\ \/ Len(s) = n + 1
             \/ Len(s) = n + 2 /\ s[n + 2] = Newline
       THEN Some(<< SubSeq(s, 1, n), s[n + 1] >>)
       ELSE None

\* int(digits)
RECURSIVE IntOf(_)
IntOf(digits) ==
    IF digits = <<>> THEN 0
    ELSE 10 * IntOf(SubSeq(digits, 1, Len(digits) - 1))
         + (CHOOSE i \in 1..Len(DigitChars) :
                DigitChars[i] = digits[Len(digits)]) - 1

\* TimeSpecification.parse_interval: the error raised ("" if none) and the
\* timedelta returned, in minutes.
parse_interval(interval_str) ==
    LET match == ReMatchInterval(interval_str)
    IN IF match = None
       THEN [error |-> "Invalid interval format", value |-> None]
       ELSE LET value == IntOf(match[1][1])
                unit == match[1][2]
            IN IF unit = "m"
               THEN [error |-> "", value |-> Some(value)]
               ELSE [error |-> "", value |-> Some(60 * value)]

(***************************************************************************)
(* The inputs tried.                                                       *)
(***************************************************************************)
GridPoints == { Point(1000 * x, 1000 * y) : x \in 0..GridMax, y \in 0..GridMax }

\* Walls along the eight compass directions, and walls of length zero.
Walls ==
    { w \in { Wall("wall", 1000 * h, s, e) :
                h \in 1..MaxHeight, s \in GridPoints, e \in GridPoints } :
        LET dx == w.end_point.x - w.start_point.x
            dy == w.end_point.y - w.start_point.y
        IN dx = 0 \/ dy = 0 \/ Abs(dx) = Abs(dy) }

\* Solar elevations, in thousandths of a degree: below the horizon, on it,
\* the two values around 0.001 rad, and above.
Elevations == { -5000, 0, 57, 58, 45000, 90000 }

\* Solar azimuths, in degrees: on, at and just past the parallel tolerance
\* of the compass directions, and across them.
Azimuths == { 0, 5, 6, 45, 90, 174, 175, 180, 270, 355, 360 }

Noon == DateTime(720, TRUE, 0)

\* Places (latitude, longitude): two valid, one with the latitude and one
\* with the longitude out of range.
Places == { <<40, -105>>, <<-33, 151>>, <<91, -105>>, <<40, 181>> }

\* Timestamps given to get_position: one naive, one aware.
SunTimes == { DateTime(720, FALSE, 0), Noon }

\* Walls that leave the north-south line by a hair: the end point (or the
\* start point) lies about 1e-16 of the wall's length west or east of it.
LeaningWalls ==
    { w \in { Wall("wall", 1000, Point(0, 1000 * s),
                    [x |-> 0, y |-> 1000 * e, x_low |-> l]) :
                 s \in 0..GridMax, e \in 0..GridMax, l \in {-1, 1} } \cup
             { Wall("wall", 1000, [x |-> 0, y |-> 1000 * s, x_low |-> l],
                    Point(0, 1000 * e)) :
                 s \in 0..GridMax, e \in 0..GridMax, l \in {-1, 1} } :
        w.start_point.y # w.end_point.y }

\* The wall bearings, shadow bearings and tolerances given to
\* is_sun_parallel.
WallBearings == { 0, 45, 90, 180, 270, 355 }
Bearings == 0..359
Tolerances == { 0, 5, 10 }

\* The vertex lists whose areas are read: three and four different
\* vertices, in every order, of a rectangle near the origin, where all
\* products and sums are exact, and of a quadrilateral far from it, where
\* they are rounded.  The coordinates are even multiples of the quantum.
NearPoints == { <<0, 0>>, <<40, 0>>, <<40, 30>>, <<0, 30>> }
FarPoints == { <<30, 880>>, <<400, 480>>, <<760, 780>>, <<970, 280>> }
PolyVertexLists ==
    { l \in [1..3 -> NearPoints] \cup [1..4 -> NearPoints]
             \cup [1..3 -> FarPoints] \cup [1..4 -> FarPoints] :
        \A i \in 1..Len(l), j \in 1..Len(l) : l[i] = l[j] => i = j }

\* The list l started k places later, and the list l backwards.
Rotated(l, k) == [i \in 1..Len(l) |-> l[((i + k - 1) % Len(l)) + 1]]
ReversedList(l) == [i \in 1..Len(l) |-> l[Len(l) + 1 - i]]

\* The calls of the geometry helpers tried.
GeomInputs ==
    { [helper |-> "is_sun_parallel", wall_direction |-> w,
       shadow_direction |-> s, tolerance_degrees |-> t] :
        w \in WallBearings, s \in Bearings, t \in Tolerances } \cup
    { [helper |-> "calculate_shadow_length", wall_height |-> 1000 * h,
       solar_elevation |-> e] :
        h \in 1..MaxHeight, e \in Elevations } \cup
    { [helper |-> "calculate_wall_direction", wall |-> w] :
        w \in Walls \cup LeaningWalls }

\* The arguments of calculate_shadow tried.
ShadowInputs ==
    { [wall |-> w, solar_elevation |-> e, solar_azimuth |-> a, time |-> Noon] :
        w \in Walls, e \in Elevations, a \in Azimuths }

PointTimes == { None, Some(DateTime(600, FALSE, 0)), Some(DateTime(600, TRUE, 0)) }
StartTimes == { None, Some(DateTime(600, FALSE, 0)), Some(DateTime(600, TRUE, 0)) }
EndTimes == { None, Some(DateTime(600, FALSE, 0)), Some(DateTime(720, FALSE, 0)),
              Some(DateTime(720, TRUE, 0)),
              Some(DateTime(600 + MaxPoints, TRUE, 0)),
              Some(DateTime(601 + MaxPoints, TRUE, 0)) }
Intervals == { None, Some(-30), Some(0), Some(1), Some(30), Some(50) }
ZoneNames == { "America/Denver", "Mars/Olympus" }


\* The strings given to parse_interval: all of at most MaxStrLen characters
\* over digits, the two unit letters and characters that are neither.
IntervalChars == { "0", "3", "m", "h", "s", "-", ".", " ", Newline }
IntervalStrings ==
    UNION { [1..k -> IntervalChars] : k \in 0..MaxStrLen }

\* The calculators tried: one place, whose ephemeris elevations are in the
\* table of CotMilli; lists of at most MaxWalls walls, two of them running
\* north-south and one east-west; a point and two ranges of two timestamps;
\* the ephemeris, or an override with the sun in the south or the east.
CalcWalls ==
    { Wall("north", 2000, Point(0, 0), Point(0, 2000)),
      Wall("south", 1000, Point(1000, 2000), Point(1000, 0)),
      Wall("east", 2000, Point(0, 0), Point(2000, 0)) }
CalcWallLists == UNION { [1..k -> CalcWalls] : k \in 0..MaxWalls }
CalcTimeArgs ==
    { TimeSpecification(Some(Noon), None, None, None, "America/Denver"),
      TimeSpecification(None, Some(DateTime(600, TRUE, 0)), Some(Noon),
                        Some(120), "America/Denver"),
      TimeSpecification(None, Some(Noon), Some(DateTime(840, TRUE, 0)),
                        Some(120), "America/Denver") }
CalcSunConfigs ==
    { None, Some(SunConfig(TRUE, Some(45000), Some(180))),
      Some(SunConfig(TRUE, Some(45000), Some(90))) }
CalcInputs ==
    { ShadowCalculator(<<45, 0>>, ws, TimeSpecPostInit(ta).self, cfg) :
        ws \in CalcWallLists, ta \in CalcTimeArgs, cfg \in CalcSunConfigs }

\* The areas tried: a square in both orientations, a rectangle away from
\* the origin that starts at its upper right corner, a square with a
\* repeated vertex, a triangle, a dart whose first vertex is its reflex
\* vertex, and a list of two vertices, which the constructor rejects.
\* Every polygon is the union of the triangles that join its first vertex
\* with its other edges.
AreaInputs ==
    { Area("square", << <<0, 0>>, <<10, 0>>, <<10, 10>>, <<0, 10>> >>, "feet"),
      Area("clockwise", << <<0, 0>>, <<0, 10>>, <<10, 10>>, <<10, 0>> >>, "feet"),
      Area("rectangle", << <<12, 8>>, <<2, 8>>, <<2, 3>>, <<12, 3>> >>, "feet"),
      Area("repeated", << <<0, 0>>, <<10, 0>>, <<10, 0>>, <<10, 10>>,
                          <<0, 10>> >>, "feet"),
      Area("triangle", << <<2, 1>>, <<12, 4>>, <<5, 11>> >>, "feet"),
      Area("dart", << <<5, 3>>, <<10, 0>>, <<5, 10>>, <<0, 0>> >>, "feet"),
      Area("segment", << <<0, 0>>, <<10, 10>> >>, "feet") }
Areas == { a \in AreaInputs : AreaPostInit(a) = "" }

\* The points tried, in the unit of the areas.
AreaPoints ==
    { Point(1000 * px, 1000 * py) : px \in -1..PointMax, py \in -1..PointMax }

\* The Shadows whose area is read: every list of four vertices over a grid
\* of nine points, in any order, given to the Shadow constructor, and lists
\* of three and five vertices, which it rejects.
QuadPoints == { Point(x, y) : x \in {0, 5000, 10000}, y \in {0, 5000, 10000} }
QuadVertexLists ==
    [1..4 -> QuadPoints]
    \cup { << Point(0, 0), Point(10000, 0), Point(10000, 5000) >>,
           << Point(0, 0), Point(10000, 0), Point(10000, 5000),
              Point(0, 5000), Point(0, 0) >> }
QuadShadows ==
    { ShadowRecord(Wall("wall", 5000, vs[1], vs[2]), Noon, vs, 45000, 180) :
        vs \in { l \in QuadVertexLists : ShadowPostInit(l) = "" } }

\* The unit names tried: the supported names in every mix of upper and
\* lower case, and names that are not supported.
RECURSIVE CaseVariants(_)
CaseVariants(name) ==
    IF name = << >> THEN { << >> }
    ELSE { <<c>> \o rest :
             c \in { name[1],
                     UpperChars[CHOOSE k \in 1..Len(LowerChars) :
                                   LowerChars[k] = name[1]] },
             rest \in CaseVariants(Tail(name)) }
UnsupportedNames ==
    { << >>,
      << "y", "d" >>,
      << "f", "u", "r", "l", "o", "n", "g" >>,
      << "f", "e", "e", "t", " " >>,
      << "m", "e", "t", "r", "e", "s" >>,
      << "f" >>,
      << "f", "t", "s" >> }
UnitNames ==
    UNION { CaseVariants(name) : name \in DOMAIN UNIT_CONVERSIONS }
    \cup UnsupportedNames

\* The values tried, of both signs up to MaxUnits whole units, and values
\* that the conversions have to round.
UnitValues ==
    { k * ValueScale : k \in {-MaxUnits, -7, 0, 7, MaxUnits} }
    \cup { 1, 33, ValueScale \div 3, MaxUnits * ValueScale - 1 }

\* The arguments of the TimeSpecification constructor tried.
TimeSpecInputs ==
    { TimeSpecification(p, s, e, i, z) :
        p \in PointTimes, s \in StartTimes, e \in EndTimes, i \in Intervals,
        z \in ZoneNames }

(***************************************************************************)
(* The state after start: nothing called, the cache empty.                 *)
(***************************************************************************)
NoSunCall ==
    [kind |-> "none", latitude |-> 0, longitude |-> 0,
     time |-> DateTime(0, FALSE, 0), sun_config |-> None, error |-> "",
     position |-> None, ephemeris |-> FALSE, event |-> "none"]

ShadowIdle ==
    /\ vertices = <<>>
    /\ shadow = None
    /\ shadowError = ""

SunIdle ==
    /\ cache = <<>>
    /\ hits = 0
    /\ misses = 0
    /\ recent = <<>>
    /\ lookups = 0
    /\ dropped = 0
    /\ sunCall = NoSunCall

TimeIdle ==
    /\ timeSpec = None
    /\ timeError = ""
    /\ gen = Generator("none", None)
    /\ yielded = <<>>
    /\ runs = <<>>

ParseIdle ==
    /\ intervalStr = None
    /\ parsed = None

CalcIdle ==
    /\ calcArgs = None
    /\ calc = NoCalc

AreaIdle ==
    /\ areaCall = None
    /\ contained = <<>>
    /\ quotients = <<>>
    /\ areaError = ""

QuadIdle ==
    /\ quadShadow = None
    /\ quadArea = None

UnitIdle ==
    /\ unitCall = None
    /\ toMeters = None
    /\ fromMeters = None

GeomIdle ==
    /\ geomCall = None
    /\ geomResult = None

PolyIdle ==
    /\ polyVertices = None
    /\ polyAreas = {}

\* calculate_shadow is about to be called with some arguments.
InitShadow ==
    /\ shadowCall \in { Some(i) : i \in ShadowInputs }
    /\ ShadowIdle
    /\ SunIdle
    /\ timeArgs = None
    /\ TimeIdle
    /\ ParseIdle
    /\ CalcIdle
    /\ AreaIdle
    /\ QuadIdle
    /\ UnitIdle
    /\ GeomIdle
    /\ PolyIdle

\* The Sun class after import: the cache empty, nothing called.
InitSun ==
    /\ shadowCall = None
    /\ ShadowIdle
    /\ SunIdle
    /\ timeArgs = None
    /\ TimeIdle
    /\ ParseIdle
    /\ CalcIdle
    /\ AreaIdle
    /\ QuadIdle
    /\ UnitIdle
    /\ GeomIdle
    /\ PolyIdle

\* parse_interval is about to be called with some string.
InitParse ==
    /\ shadowCall = None
    /\ ShadowIdle
    /\ SunIdle
    /\ timeArgs = None
    /\ TimeIdle
    /\ intervalStr \in { Some(str) : str \in IntervalStrings }
    /\ parsed = None
    /\ CalcIdle
    /\ AreaIdle
    /\ QuadIdle
    /\ UnitIdle
    /\ GeomIdle
    /\ PolyIdle

\* An Area has been constructed; contains_point is about to be asked.
InitArea ==
    /\ shadowCall = None
    /\ ShadowIdle
    /\ SunIdle
    /\ timeArgs = None
    /\ TimeIdle
    /\ ParseIdle
    /\ CalcIdle
    /\ areaCall \in { Some([area |-> a, point |-> pt]) :
                         a \in Areas, pt \in AreaPoints }
    /\ contained = <<>>
    /\ quotients = <<>>
    /\ areaError = ""
    /\ QuadIdle
    /\ UnitIdle
    /\ GeomIdle
    /\ PolyIdle

\* A Shadow has been constructed; its area is about to be read.
InitQuad ==
    /\ shadowCall = None
    /\ ShadowIdle
    /\ SunIdle
    /\ timeArgs = None
    /\ TimeIdle
    /\ ParseIdle
    /\ CalcIdle
    /\ AreaIdle
    /\ quadShadow \in { Some(sh) : sh \in QuadShadows }
    /\ quadArea = None
    /\ UnitIdle
    /\ GeomIdle
    /\ PolyIdle

\* A value and a unit name are about to be converted.
InitUnit ==
    /\ shadowCall = None
    /\ ShadowIdle
    /\ SunIdle
    /\ timeArgs = None
    /\ TimeIdle
    /\ ParseIdle
    /\ CalcIdle
    /\ AreaIdle
    /\ QuadIdle
    /\ unitCall \in { Some([value |-> v, unit |-> u]) :
                         v \in UnitValues, u \in UnitNames }
    /\ toMeters = None
    /\ fromMeters = None
    /\ GeomIdle
    /\ PolyIdle

\* A vertex list has been chosen; no area has been read.
InitPoly ==
    /\ shadowCall = None
    /\ ShadowIdle
    /\ SunIdle
    /\ timeArgs = None
    /\ TimeIdle
    /\ ParseIdle
    /\ CalcIdle
    /\ AreaIdle
    /\ QuadIdle
    /\ UnitIdle
    /\ GeomIdle
    /\ polyVertices \in { Some(l) : l \in PolyVertexLists }
    /\ polyAreas = {}

\* One of the geometry helpers is about to be called.
InitGeom ==
    /\ shadowCall = None
    /\ ShadowIdle
    /\ SunIdle
    /\ timeArgs = None
    /\ TimeIdle
    /\ ParseIdle
    /\ CalcIdle
    /\ AreaIdle
    /\ QuadIdle
    /\ UnitIdle
    /\ geomCall \in { Some(c) : c \in GeomInputs }
    /\ geomResult = None
    /\ PolyIdle

\* A ShadowCalculator has been constructed; calculate is about to be called.
InitCalc ==
    /\ shadowCall = None
    /\ ShadowIdle
    /\ SunIdle
    /\ timeArgs = None
    /\ TimeIdle
    /\ ParseIdle
    /\ calcArgs \in { Some(a) : a \in CalcInputs }
    /\ calc = NoCalc
    /\ AreaIdle
    /\ QuadIdle
    /\ UnitIdle
    /\ GeomIdle
    /\ PolyIdle

\* TimeSpecification(...) is about to be called with some arguments.
InitTime ==
    /\ shadowCall = None
    /\ ShadowIdle
    /\ SunIdle
    /\ timeArgs \in { Some(i) : i \in TimeSpecInputs }
    /\ TimeIdle
    /\ ParseIdle
    /\ CalcIdle
    /\ AreaIdle
    /\ QuadIdle
    /\ UnitIdle
    /\ GeomIdle
    /\ PolyIdle

(***************************************************************************)
(* The operations.                                                         *)
(***************************************************************************)
\* The call of ShadowCalculations.calculate_shadow with the arguments of
\* shadowCall: it returns a Shadow or raises.
CalculateShadow ==
    /\ shadowCall # None
    /\ shadow = None /\ shadowError = ""
    /\ LET a == shadowCall[1]
           r == calculate_shadow(a.wall, a.solar_elevation, a.solar_azimuth,
                                 a.time)
       IN /\ vertices' = r.vertices
          /\ shadow' = r.shadow
          /\ shadowError' = r.error
    /\ UNCHANGED <<shadowCall, sunVars, timeVars, iterVars, parseVars, calcVars, areaVars, quadVars, unitVars, geomVars, polyVars>>

\* One call of Sun.get_position.
GetPosition(latitude, longitude, time, sun_config) ==
    LET r == get_position(latitude, longitude, time, sun_config,
                          cache, hits, misses)
        key == LruKey(latitude, longitude, IsoFormat(time))
    IN /\ r.hits + r.misses <= MaxCalls
       /\ cache' = r.cache
       /\ hits' = r.hits
       /\ misses' = r.misses
       /\ recent' = IF r.event = "none" THEN recent
                    ELSE Append(SelectSeq(recent, LAMBDA k : k # key), key)
       /\ lookups' = IF ReachesCache(time, sun_config) THEN lookups + 1
                     ELSE lookups
       /\ dropped' = dropped
       /\ sunCall' = [kind |-> "get", latitude |-> latitude,
                      longitude |-> longitude, time |-> time,
                      sun_config |-> sun_config, error |-> r.error,
                      position |-> r.position, ephemeris |-> r.ephemeris,
                      event |-> r.event]
       /\ UNCHANGED <<shadowVars, timeVars, iterVars, parseVars, calcVars, areaVars, quadVars, unitVars, geomVars, polyVars>>

\* Sun.clear_cache: cache_clear() empties the cache and zeroes its counters.
ClearCache ==
    /\ cache' = <<>>
    /\ hits' = 0
    /\ misses' = 0
    /\ recent' = <<>>
    /\ lookups' = 0
    /\ dropped' = Len(cache)
    /\ sunCall' = [NoSunCall EXCEPT !.kind = "clear"]
    /\ UNCHANGED <<shadowVars, timeVars, iterVars, parseVars, calcVars, areaVars, quadVars, unitVars, geomVars, polyVars>>

\* The construction of a TimeSpecification from the arguments of timeArgs:
\* the dataclass stores the fields and runs __post_init__.
ConstructTimeSpec ==
    /\ timeArgs # None
    /\ timeSpec = None /\ timeError = ""
    /\ LET r == TimeSpecPostInit(timeArgs[1])
       IN /\ timeError' = r.error
          /\ timeSpec' = IF r.error = "" THEN Some(r.self) ELSE None
    /\ UNCHANGED <<timeArgs, shadowVars, sunVars, iterVars, parseVars, calcVars, areaVars, quadVars, unitVars, geomVars, polyVars>>

\* The call self.get_times() on the constructed object: it makes a
\* generator and runs none of its body.
GetTimes ==
    /\ timeSpec # None
    /\ gen.state \in {"none", "done"}
    /\ Len(runs) < MaxRuns
    /\ gen' = Generator("created", None)
    /\ yielded' = <<>>
    /\ UNCHANGED <<runs, shadowVars, sunVars, timeVars, parseVars, calcVars, areaVars, quadVars, unitVars, geomVars, polyVars>>

\* One next() of the consumer on the generator: the body runs to its next
\* yield or to its end.
NextTimestamp ==
    /\ gen.state \in {"created", "suspended"}
    /\ LET r == get_times(timeSpec[1], gen)
       IN /\ gen' = r.gen
          /\ yielded' = IF r.yield = None THEN yielded
                        ELSE Append(yielded, r.yield[1])
          /\ runs' = IF r.gen.state = "done" THEN Append(runs, yielded)
                     ELSE runs
    /\ UNCHANGED <<shadowVars, sunVars, timeVars, parseVars, calcVars, areaVars, quadVars, unitVars, geomVars, polyVars>>

\* The call TimeSpecification.parse_interval(interval_str).
ParseInterval ==
    /\ intervalStr # None
    /\ parsed = None
    /\ parsed' = Some(parse_interval(intervalStr[1]))
    /\ UNCHANGED <<intervalStr, shadowVars, sunVars, timeVars, iterVars, calcVars, areaVars, quadVars, unitVars, geomVars, polyVars>>

\* The call self.calculate(): the list comprehension starts and asks
\* time_spec.get_times() for its generator.
Calculate ==
    /\ calcArgs # None
    /\ calc.state = "none"
    /\ calc' = [calc EXCEPT !.state = "iterating"]
    /\ gen' = Generator("created", None)
    /\ yielded' = <<>>
    /\ UNCHANGED <<runs, calcArgs, shadowVars, sunVars, timeVars, parseVars, areaVars, quadVars, unitVars, geomVars, polyVars>>

\* The comprehension takes the next time from the generator; at its end
\* calculate returns the lists, else calculate_for_time(time) starts and
\* requests the sun position.
CalculateForTime ==
    /\ calc.state = "iterating"
    /\ LET self == calcArgs[1]
           r == get_times(self.time_spec, gen)
       IN /\ gen' = r.gen
          /\ IF r.yield = None
             THEN /\ runs' = Append(runs, yielded)
                  /\ calc' = [calc EXCEPT !.state = "returned"]
                  /\ UNCHANGED <<yielded, sunVars>>
             ELSE LET time == r.yield[1]
                      p == get_position(self.location[1], self.location[2],
                                        time, self.sun_config,
                                        cache, hits, misses)
                      key == LruKey(self.location[1], self.location[2],
                                    IsoFormat(time))
                  IN /\ yielded' = Append(yielded, time)
                     /\ runs' = runs
                     /\ cache' = p.cache
                     /\ hits' = p.hits
                     /\ misses' = p.misses
                     /\ recent' = IF p.event = "none" THEN recent
                                  ELSE Append(SelectSeq(recent,
                                                LAMBDA k : k # key), key)
                     /\ lookups' = IF ReachesCache(time, self.sun_config)
                                   THEN lookups + 1 ELSE lookups
                     /\ dropped' = dropped
                     /\ sunCall' = [kind |-> "get",
                                    latitude |-> self.location[1],
                                    longitude |-> self.location[2],
                                    time |-> time,
                                    sun_config |-> self.sun_config,
                                    error |-> p.error,
                                    position |-> p.position,
                                    ephemeris |-> p.ephemeris,
                                    event |-> p.event]
                     /\ calc' = IF p.error # ""
                                THEN [calc EXCEPT
                                        !.state = "raised",
                                        !.error = p.error,
                                        !.sunRequests = @ + 1]
                                ELSE [calc EXCEPT
                                        !.state = "walls",
                                        !.time = Some(time),
                                        !.sun_position = p.position,
                                        !.shadows = <<>>,
                                        !.sunRequests = @ + 1]
    /\ UNCHANGED <<calcArgs, shadowVars, timeVars, parseVars, areaVars, quadVars, unitVars, geomVars, polyVars>>

\* One turn of the loop over self.walls in calculate_for_time: the call of
\* calculate_shadow for the next wall, and the append of its Shadow.
CalculateWallShadow ==
    /\ calc.state = "walls"
    /\ Len(calc.shadows) < Len(calcArgs[1].walls)
    /\ LET wall == calcArgs[1].walls[Len(calc.shadows) + 1]
           sun_position == calc.sun_position[1]
           time == calc.time[1]
           r == calculate_shadow(wall, sun_position.elevation,
                                 sun_position.azimuth, time)
       IN /\ shadowCall' = Some([wall |-> wall,
                                 solar_elevation |-> sun_position.elevation,
                                 solar_azimuth |-> sun_position.azimuth,
                                 time |-> time])
          /\ vertices' = r.vertices
          /\ shadow' = r.shadow
          /\ shadowError' = r.error
          /\ calc' = IF r.error # ""
                     THEN [calc EXCEPT !.state = "raised",
                                       !.error = r.error,
                                       !.shadowCalls = @ + 1]
                     ELSE [calc EXCEPT
                             !.shadows = AppendShadow(@, r.shadow[1]),
                             !.shadowCalls = @ + 1]
    /\ UNCHANGED <<calcArgs, sunVars, timeVars, iterVars, parseVars, areaVars, quadVars, unitVars, geomVars, polyVars>>

\* The loop over the walls has ended: calculate_for_time returns its list,
\* which the comprehension collects.
ReturnShadows ==
    /\ calc.state = "walls"
    /\ Len(calc.shadows) = Len(calcArgs[1].walls)
    /\ calc' = [calc EXCEPT !.state = "iterating",
                            !.results = Append(@, calc.shadows),
                            !.time = None,
                            !.sun_position = None,
                            !.shadows = <<>>]
    /\ UNCHANGED <<calcArgs, shadowVars, sunVars, timeVars, iterVars, parseVars, areaVars, quadVars, unitVars, geomVars, polyVars>>

\* One call area.contains_point(point).
ContainsPoint ==
    /\ areaCall # None
    /\ areaError = ""
    /\ Len(contained) < MaxQueries
    /\ LET d == contains_point_division(areaCall[1].area, areaCall[1].point)
       IN /\ quotients' = d.quotients
          /\ areaError' = d.error
          /\ contained' =
                IF d.error # "" THEN contained
                ELSE Append(contained, contains_point(areaCall[1].area,
                                                      areaCall[1].point))
    /\ UNCHANGED <<areaCall, shadowVars, sunVars, timeVars, iterVars, parseVars, calcVars, quadVars, unitVars, geomVars, polyVars>>

\* The read of the property shadow.area.
ReadArea ==
    /\ quadShadow # None
    /\ quadArea = None
    /\ quadArea' = Some(ShadowArea(quadShadow[1]))
    /\ UNCHANGED <<quadShadow, shadowVars, sunVars, timeVars, iterVars, parseVars, calcVars, areaVars, unitVars, geomVars, polyVars>>

\* The call UnitConverter.convert_to_meters(value, unit).
ConvertToMeters ==
    /\ unitCall # None
    /\ toMeters = None
    /\ toMeters' = Some(convert_to_meters(unitCall[1].value, unitCall[1].unit))
    /\ UNCHANGED <<unitCall, fromMeters, shadowVars, sunVars, timeVars, iterVars, parseVars, calcVars, areaVars, quadVars, geomVars, polyVars>>

\* The call UnitConverter.convert_from_meters(m, unit) that follows: m is
\* the value convert_to_meters returned or, when that call raised, the
\* value itself.
ConvertFromMeters ==
    /\ toMeters # None
    /\ fromMeters = None
    /\ LET m == IF toMeters[1].error = "" THEN toMeters[1].value[1]
                ELSE unitCall[1].value
       IN fromMeters' = Some(convert_from_meters(m, unitCall[1].unit))
    /\ UNCHANGED <<unitCall, toMeters, shadowVars, sunVars, timeVars, iterVars, parseVars, calcVars, areaVars, quadVars, geomVars, polyVars>>

\* The call ShadowCalculations.is_sun_parallel(wall_direction,
\* shadow_direction, tolerance_degrees).
IsSunParallel ==
    /\ geomCall # None
    /\ geomCall[1].helper = "is_sun_parallel"
    /\ geomResult = None
    /\ geomResult' = Some(is_sun_parallel(geomCall[1].wall_direction,
                                          geomCall[1].shadow_direction,
                                          geomCall[1].tolerance_degrees))
    /\ UNCHANGED <<geomCall, shadowVars, sunVars, timeVars, iterVars, parseVars, calcVars, areaVars, quadVars, unitVars, polyVars>>

\* The call ShadowCalculations.calculate_shadow_length(wall_height,
\* solar_elevation): the length returned, and the residue of the float.
CalculateShadowLength ==
    /\ geomCall # None
    /\ geomCall[1].helper = "calculate_shadow_length"
    /\ geomResult = None
    /\ geomResult' =
          Some([length |-> calculate_shadow_length(geomCall[1].wall_height,
                                                   geomCall[1].solar_elevation),
                residue |-> ShadowLengthResidue(geomCall[1].wall_height,
                                                geomCall[1].solar_elevation)])
    /\ UNCHANGED <<geomCall, shadowVars, sunVars, timeVars, iterVars, parseVars, calcVars, areaVars, quadVars, unitVars, polyVars>>

\* The call ShadowCalculations.calculate_wall_direction(wall).
CalculateWallDirection ==
    /\ geomCall # None
    /\ geomCall[1].helper = "calculate_wall_direction"
    /\ geomResult = None
    /\ geomResult' = Some(calculate_wall_direction(geomCall[1].wall))
    /\ UNCHANGED <<geomCall, shadowVars, sunVars, timeVars, iterVars, parseVars, calcVars, areaVars, quadVars, unitVars, polyVars>>

\* An area read for the vertex list: the order the vertices were given in
\* ("given", "rotated" by shift places, "reversed"), the class read from
\* and the value.
Reading(order, shift, class, value) ==
    [order |-> order, shift |-> shift, class |-> class, area |-> value]

\* Area(name, vertices, units).area for the list as chosen.
ReadAreaArea ==
    /\ polyVertices # None
    /\ LET self == Area("area", polyVertices[1], "feet")
           r == Reading("given", 0, "Area", AreaArea(self))
       IN /\ AreaPostInit(self) = ""
          /\ r \notin polyAreas
          /\ polyAreas' = polyAreas \cup {r}
    /\ UNCHANGED <<polyVertices, shadowVars, sunVars, timeVars, iterVars, parseVars, calcVars, areaVars, quadVars, unitVars, geomVars>>

\* The same for the list started at another vertex.
ReadAreaRotated ==
    /\ polyVertices # None
    /\ \E k \in 1..(Len(polyVertices[1]) - 1) :
          LET self == Area("area", Rotated(polyVertices[1], k), "feet")
              r == Reading("rotated", k, "Area", AreaArea(self))
          IN /\ AreaPostInit(self) = ""
             /\ r \notin polyAreas
             /\ polyAreas' = polyAreas \cup {r}
    /\ UNCHANGED <<polyVertices, shadowVars, sunVars, timeVars, iterVars, parseVars, calcVars, areaVars, quadVars, unitVars, geomVars>>

\* The same for the list backwards.
ReadAreaReversed ==
    /\ polyVertices # None
    /\ LET self == Area("area", ReversedList(polyVertices[1]), "feet")
           r == Reading("reversed", 0, "Area", AreaArea(self))
       IN /\ AreaPostInit(self) = ""
          /\ r \notin polyAreas
          /\ polyAreas' = polyAreas \cup {r}
    /\ UNCHANGED <<polyVertices, shadowVars, sunVars, timeVars, iterVars, parseVars, calcVars, areaVars, quadVars, unitVars, geomVars>>

\* Shadow(wall, time, vertices, ..).area for the same points in the same
\* order, which the constructor accepts when there are four.
ReadShadowAreaFloat ==
    /\ polyVertices # None
    /\ LET l == polyVertices[1]
           vs == [i \in 1..Len(l) |-> Point(l[i][1], l[i][2])]
           r == Reading("given", 0, "Shadow", ShadowAreaFloat([vertices |-> vs]))
       IN /\ ShadowPostInit(vs) = ""
          /\ r \notin polyAreas
          /\ polyAreas' = polyAreas \cup {r}
    /\ UNCHANGED <<polyVertices, shadowVars, sunVars, timeVars, iterVars, parseVars, calcVars, areaVars, quadVars, unitVars, geomVars>>

NextShadow == CalculateShadow

NextSun ==
    \/ \E p \in Places, t \in SunTimes, c \in {None} \cup {Some(g) : g \in SunConfigs} :
          GetPosition(p[1], p[2], t, c)
    \/ ClearCache

NextTime ==
    \/ ConstructTimeSpec
    \/ GetTimes
    \/ NextTimestamp

NextParse == ParseInterval

NextArea == ContainsPoint

NextQuad == ReadArea

NextUnit ==
    \/ ConvertToMeters
    \/ ConvertFromMeters

NextPoly ==
    \/ ReadAreaArea
    \/ ReadAreaRotated
    \/ ReadAreaReversed
    \/ ReadShadowAreaFloat

NextGeom ==
    \/ IsSunParallel
    \/ CalculateShadowLength
    \/ CalculateWallDirection

NextCalc ==
    \/ Calculate
    \/ CalculateForTime
    \/ CalculateWallShadow
    \/ ReturnShadows

SpecShadow == InitShadow /\ [][NextShadow]_vars
SpecParse == InitParse /\ [][NextParse]_vars
SpecCalc == InitCalc /\ [][NextCalc]_vars
SpecArea == InitArea /\ [][NextArea]_vars
SpecQuad == InitQuad /\ [][NextQuad]_vars
SpecUnit == InitUnit /\ [][NextUnit]_vars
SpecGeom == InitGeom /\ [][NextGeom]_vars
SpecPoly == InitPoly /\ [][NextPoly]_vars
SpecSun == InitSun /\ [][NextSun]_vars
SpecTime == InitTime /\ [][NextTime]_vars

\* The consumer of a generator (a for loop, list()) keeps calling next()
\* until the generator is exhausted.
SpecTimeLive == SpecTime /\ WF_vars(NextTimestamp)

(***************************************************************************)
(* Claims about calculate_shadow (SpecShadow).                             *)
(***************************************************************************)
\* The call of shadowCall has ended, with a Shadow or with an exception.
ShadowEnded == shadowCall # None /\ (shadow # None \/ shadowError # "")

\* The displacement (dx, dy) of step 5 for the call of shadowCall.
Displacement ==
    LET a == shadowCall[1]
        len == calculate_shadow_length(a.wall.height, a.solar_elevation)
        dir == calculate_shadow_direction(a.solar_azimuth)
    IN Point(MulMilli(len, SinMilli(dir)), MulMilli(len, CosMilli(dir)))

Plus(p, d) == Point(p.x + d.x, p.y + d.y)

\* C1: every call of calculate_shadow on a wall with start # end returns a
\* Shadow with exactly 4 vertices, whichever branch built them; none ends
\* in the vertex-count error of the Shadow constructor.
C1_FourVerticesNoError ==
    (ShadowEnded /\ shadowCall[1].wall.start_point # shadowCall[1].wall.end_point)
        => /\ shadowError = ""
           /\ shadow # None
           /\ Len(shadow[1].vertices) = 4

\* C2: in every Shadow that calculate_shadow returns, vertices[0] is the
\* wall start, vertices[1] the wall end, vertices[2] the shadow end point
\* cast from the wall start and vertices[3] the one cast from the wall end.
C2_VertexOrder ==
    shadow # None
        => LET w == shadowCall[1].wall
               v == shadow[1].vertices
           IN /\ v[1] = w.start_point
              /\ v[2] = w.end_point
              /\ v[3] = Plus(w.start_point, Displacement)
              /\ v[4] = Plus(w.end_point, Displacement)

\* C3: a call of calculate_shadow on a wall whose start equals its end
\* fails with an invalid-geometry error before any vertex is computed, and
\* returns no Shadow.
C3_ZeroLengthWallRejected ==
    (ShadowEnded /\ shadowCall[1].wall.start_point = shadowCall[1].wall.end_point)
        => /\ shadow = None
           /\ shadowError # ""
           /\ vertices = <<>>

(***************************************************************************)
(* Claims about Sun.get_position and its cache (SpecSun).                  *)
(***************************************************************************)
\* The last call was get_position with an override in force.
Overridden(call) ==
    /\ call.kind = "get"
    /\ call.sun_config # None
    /\ call.sun_config[1].override_position

\* The call was get_position with a timezone-aware time and no override in
\* force: the calls that get past the timezone check to the cache.
LookedUp(call) ==
    /\ call.kind = "get"
    /\ call.time.aware
    /\ ~Overridden(call)

CallKey(call) == LruKey(call.latitude, call.longitude, IsoFormat(call.time))

CachedKeys(c) == { c[i].key : i \in 1..Len(c) }

\* The last n elements of a sequence (all of it when it is shorter).
LastN(q, n) == IF Len(q) <= n THEN q ELSE SubSeq(q, Len(q) - n + 1, Len(q))

\* C4: get_position with a latitude outside [-90, 90] or a longitude
\* outside [-180, 180] fails with the coordinate-range error, without
\* consulting the ephemeris and without a cache lookup or a new entry.
C4_OutOfRangeRejected ==
    (sunCall.kind = "get"
     /\ validate_coordinates(sunCall.latitude, sunCall.longitude) # "")
        => /\ sunCall.position = None
           /\ sunCall.error
                = validate_coordinates(sunCall.latitude, sunCall.longitude)
           /\ ~sunCall.ephemeris
           /\ sunCall.event = "none"

\* C5, as claimed: with override_position true, get_position returns the
\* configured azimuth and elevation with the requested time for every
\* latitude, longitude and time, and leaves the ephemeris and the cache
\* (entries, hits, misses) alone.
C5_OverrideAlwaysReturns ==
    [][ Overridden(sunCall')
          => /\ sunCall'.position =
                    Some(SunPosition(sunCall'.sun_config[1].azimuth[1],
                                     sunCall'.sun_config[1].elevation[1],
                                     sunCall'.time))
             /\ ~sunCall'.ephemeris
             /\ cache' = cache /\ hits' = hits /\ misses' = misses ]_vars

\* C5, amended: with override_position true, get_position returns the
\* configured azimuth and elevation with the requested time for every
\* latitude and longitude and every timezone-aware time; for a naive time
\* it raises "Time must be timezone-aware" and returns nothing.  In both
\* cases it leaves the ephemeris and the cache (entries, hits, misses) alone.
C5_OverrideReturnsForAwareTime ==
    [][ Overridden(sunCall')
          => /\ sunCall'.time.aware
                  => /\ sunCall'.error = ""
                     /\ sunCall'.position =
                          Some(SunPosition(sunCall'.sun_config[1].azimuth[1],
                                           sunCall'.sun_config[1].elevation[1],
                                           sunCall'.time))
             /\ ~sunCall'.time.aware
                  => /\ sunCall'.error = "Time must be timezone-aware"
                     /\ sunCall'.position = None
             /\ ~sunCall'.ephemeris
             /\ sunCall'.event = "none"
             /\ cache' = cache /\ hits' = hits /\ misses' = misses ]_vars

\* An overridden call with an aware time and an out-of-range latitude has
\* returned the configured position after the cache had been used.
C5_Witness ==
    /\ Overridden(sunCall)
    /\ sunCall.time.aware
    /\ sunCall.latitude > 90
    /\ sunCall.position # None
    /\ sunCall.position[1].azimuth = sunCall.sun_config[1].azimuth[1]
    /\ misses > 0

\* C6: of two consecutive get_position calls without override and with the
\* same latitude, longitude and (timezone-aware) timestamp, the second
\* returns the azimuth and elevation of the first, increments only the hit
\* counter and does not consult the ephemeris; such a call on a key that is
\* not cached returns, consults the ephemeris and increments only the miss
\* counter.
C6_SecondCallHits ==
    [][ /\ (LookedUp(sunCall') /\ CallKey(sunCall') \notin CachedKeys(cache))
            => /\ sunCall'.position # None
               /\ misses' = misses + 1
               /\ hits' = hits
               /\ sunCall'.event = "miss"
               /\ sunCall'.ephemeris
        /\ (LookedUp(sunCall) /\ LookedUp(sunCall')
            /\ sunCall'.latitude = sunCall.latitude
            /\ sunCall'.longitude = sunCall.longitude
            /\ sunCall'.time = sunCall.time)
            => /\ sunCall'.position # None
               /\ sunCall'.position[1].azimuth = sunCall.position[1].azimuth
               /\ sunCall'.position[1].elevation = sunCall.position[1].elevation
               /\ hits' = hits + 1
               /\ misses' = misses
               /\ sunCall'.event = "hit"
               /\ ~sunCall'.ephemeris ]_vars

\* Exactly two lookups since the clear: a miss, then a hit on the same key.
C6_Witness ==
    /\ LookedUp(sunCall)
    /\ sunCall.event = "hit"
    /\ hits = 1
    /\ misses = 1
    /\ Len(recent) = 1

\* C7: after any sequence of get_position and clear_cache calls the cache
\* holds at most CACHE_SIZE entries; they are the CACHE_SIZE most recently
\* used (inserted or hit) of the keys looked up since the cache was last
\* cleared, least recently used first, so that a miss on a full cache evicts
\* the least recently used key and a lookup of a key among the last
\* CACHE_SIZE distinct keys is a hit (and of any other key a miss).
C7_BoundedLru ==
    /\ [](/\ Len(cache) <= CACHE_SIZE
          /\ [i \in 1..Len(cache) |-> cache[i].key] = LastN(recent, CACHE_SIZE))
    /\ [][ LookedUp(sunCall')
             => (sunCall'.event = "hit"
                   <=> \E i \in 1..Len(LastN(recent, CACHE_SIZE)) :
                          LastN(recent, CACHE_SIZE)[i] = CallKey(sunCall')) ]_vars

\* More keys than the cache holds have been looked up, the cache is full,
\* and the last call hit a key that is still among the most recent ones.
C7_Witness ==
    /\ Len(recent) > CACHE_SIZE
    /\ Len(cache) = CACHE_SIZE
    /\ sunCall.event = "hit"

\* C8, as claimed: every SunPosition that get_position returns, one from an
\* accepted override included, has an azimuth in [0, 360), 360 excluded,
\* and a timezone-aware time.
C8_AzimuthBelow360 ==
    (sunCall.kind = "get" /\ sunCall.position # None)
        => /\ 0 <= sunCall.position[1].azimuth
           /\ sunCall.position[1].azimuth < 360
           /\ sunCall.position[1].time.aware

\* C8, amended: every SunPosition that get_position returns has an azimuth
\* in [0, 360] and a timezone-aware time; the azimuth is 360 itself only
\* for an override, whose SunConfig accepts azimuths from 0 to 360 inclusive.
C8_AzimuthAtMost360 ==
    (sunCall.kind = "get" /\ sunCall.position # None)
        => /\ 0 <= sunCall.position[1].azimuth
           /\ sunCall.position[1].azimuth <= 360
           /\ sunCall.position[1].azimuth = 360 => Overridden(sunCall)
           /\ sunCall.position[1].time.aware
           /\ sunCall.position[1].time = sunCall.time

\* A position with azimuth 360 has been returned from an accepted override.
C8_Witness ==
    /\ Overridden(sunCall)
    /\ sunCall.position # None
    /\ sunCall.position[1].azimuth = 360

(***************************************************************************)
(* Claims about the TimeSpecification constructor (SpecTime).              *)
(***************************************************************************)
\* The construction of timeArgs has ended, with an object or a ValueError.
TimeEnded == timeArgs # None /\ (timeSpec # None \/ timeError # "")

\* The start and end given, with the default zone applied where naive.
GivenStart == WithDefaultZone(timeArgs[1].start_time,
                              ZoneInfo(timeArgs[1].default_timezone)[1])
GivenEnd == WithDefaultZone(timeArgs[1].end_time,
                            ZoneInfo(timeArgs[1].default_timezone)[1])

\* C9: the construction fails when point_time is given together with any
\* of start_time, end_time or interval, whatever value that field holds,
\* and when point_time is absent and any of the three is missing; no object
\* in both modes or in neither is constructed.
C9_ModesExclusive ==
    timeSpec # None
        => LET a == timeArgs[1]
           IN /\ ~(a.point_time # None
                   /\ (a.start_time # None \/ a.end_time # None
                       \/ a.interval # None))
              /\ ~(a.point_time = None
                   /\ (a.start_time = None \/ a.end_time = None
                       \/ a.interval = None))

\* C10: the construction of a range (no point_time) fails whenever
\* end_time <= start_time, equal included, and whenever interval <= 0, zero
\* included; every range constructed has end > start and interval > 0.
C10_RangeValid ==
    /\ (TimeEnded /\ timeArgs[1].point_time = None)
        => LET a == timeArgs[1]
           IN /\ (a.start_time # None /\ a.end_time # None
                  /\ ZoneInfo(a.default_timezone) # None
                  /\ Instant(GivenEnd[1]) <= Instant(GivenStart[1]))
                    => (timeSpec = None /\ timeError # "")
              /\ (a.interval # None /\ a.interval[1] <= 0)
                    => (timeSpec = None /\ timeError # "")
    /\ (timeSpec # None /\ is_range(timeSpec[1]))
        => /\ timeSpec[1].end_time # None
           /\ timeSpec[1].interval # None
           /\ Instant(timeSpec[1].end_time[1])
                > Instant(timeSpec[1].start_time[1])
           /\ timeSpec[1].interval[1] > 0

\* A range with end_time equal to start_time and a positive interval has
\* been rejected for its end.
C10_Witness ==
    /\ TimeEnded
    /\ timeArgs[1].point_time = None
    /\ timeArgs[1].start_time # None
    /\ timeArgs[1].end_time = timeArgs[1].start_time
    /\ timeArgs[1].interval # None
    /\ timeArgs[1].interval[1] > 0
    /\ timeSpec = None
    /\ timeError = "End time must be after start time"

(***************************************************************************)
(* Claims about TimeSpecification.get_times (SpecTime, SpecTimeLive).      *)
(***************************************************************************)
\* The length of the range of a constructed range specification, and the
\* k-th timestamp of its grid (k = 0 is the start).
Span(self) == Instant(self.end_time[1]) - Instant(self.start_time[1])
GridTime(self, k) ==
    DateTime(self.start_time[1].wall + k * self.interval[1], TRUE,
             self.start_time[1].off)

\* ceil(a / b) for a >= 0, b > 0
CeilDiv(a, b) == (a + b - 1) \div b

\* C11: no constructed range specification expands to more than 1000
\* timestamps; the construction fails with the range-too-large error
\* whenever ceil((end - start) / interval) + 1 exceeds 1000.
C11_AtMostMaxPoints ==
    /\ (timeSpec # None /\ is_range(timeSpec[1]))
        => /\ Len(yielded) <= MaxPoints
           /\ CeilDiv(Span(timeSpec[1]), timeSpec[1].interval[1]) + 1
                <= MaxPoints
    /\ \A i \in 1..Len(runs) : Len(runs[i]) <= MaxPoints

\* C12: get_times yields for a point specification exactly the point time;
\* for a range exactly the timestamps start + k*interval, k = 0, 1, ...,
\* that are <= end, in strictly increasing order, the first being start and
\* end itself being yielded exactly when end - start is a whole multiple of
\* interval; start, start + 2h, interval 30m gives exactly 5 timestamps.
C12_GetTimesYields ==
    timeSpec # None
        => LET self == timeSpec[1]
               n == IF is_point(self) THEN 1
                    ELSE Span(self) \div self.interval[1] + 1
               Expected(k) == IF is_point(self) THEN self.point_time[1]
                              ELSE GridTime(self, k - 1)
           IN /\ Len(yielded) <= n
              /\ \A k \in 1..Len(yielded) : yielded[k] = Expected(k)
              /\ \A i \in 1..Len(runs) :
                    /\ Len(runs[i]) = n
                    /\ \A k \in 1..n : runs[i][k] = Expected(k)
                    /\ \A k \in 1..(n - 1) :
                          Instant(runs[i][k]) < Instant(runs[i][k + 1])
                    /\ is_range(self)
                        => /\ runs[i][1] = self.start_time[1]
                           /\ Instant(runs[i][n]) <= Instant(self.end_time[1])
                           /\ Instant(GridTime(self, n))
                                > Instant(self.end_time[1])
                           /\ (Instant(runs[i][n]) = Instant(self.end_time[1]))
                                <=> (Span(self) % self.interval[1] = 0)
                           /\ (Span(self) = 120 /\ self.interval[1] = 30)
                                => Len(runs[i]) = 5

\* An iteration of a two-hour range with a 30 minute interval has ended
\* with five timestamps, the last of them the end time.
C12_Witness ==
    /\ timeSpec # None
    /\ is_range(timeSpec[1])
    /\ Span(timeSpec[1]) = 120
    /\ timeSpec[1].interval[1] = 30
    /\ runs # <<>>
    /\ Len(runs[1]) = 5
    /\ Instant(runs[1][5]) = Instant(timeSpec[1].end_time[1])

\* C13: on every constructed TimeSpecification an iteration of get_times
\* that is started ends after finitely many timestamps; every later
\* iteration yields the same sequence, and no step of an iteration changes
\* a field of the specification.
C13_TerminatesAndRestarts ==
    /\ (gen.state = "created") ~> (gen.state = "done")
    /\ [](\A i \in 1..Len(runs) : runs[i] = runs[1])
    /\ [][gen' # gen => timeSpec' = timeSpec]_vars

\* A range of several timestamps has been iterated to its end twice.
C13_Witness ==
    /\ timeSpec # None
    /\ is_range(timeSpec[1])
    /\ gen.state = "done"
    /\ Len(runs) >= 2
    /\ Len(runs[1]) > 1
    /\ runs[2] = runs[1]

\* C14: a construction with naive point, start or end timestamps has the
\* outcome it has with these timestamps in the default timezone, and the
\* object holds them in that zone; every timestamp get_times yields is
\* timezone-aware and passes the timezone check of Sun.get_position.
C14_NaiveDefaulted ==
    /\ (TimeEnded /\ ZoneInfo(timeArgs[1].default_timezone) # None)
        => LET a == timeArgs[1]
               off == ZoneInfo(a.default_timezone)[1]
               Z(t) == IF t # None /\ ~t[1].aware
                       THEN Some(DateTime(t[1].wall, TRUE, off)) ELSE t
               za == [a EXCEPT !.point_time = Z(@), !.start_time = Z(@),
                               !.end_time = Z(@)]
           IN /\ timeError = TimeSpecPostInit(za).error
              /\ timeSpec # None => timeSpec[1] = za
    /\ \A k \in 1..Len(yielded) :
          /\ yielded[k].aware
          /\ get_position(40, -105, yielded[k], None, cache, hits, misses).error
                = ""

\* A range given with a naive start and a naive end has been constructed
\* and iterated: its timestamps carry the offset of the default zone.
C14_Witness ==
    /\ timeSpec # None
    /\ timeArgs[1].start_time # None
    /\ ~timeArgs[1].start_time[1].aware
    /\ ~timeArgs[1].end_time[1].aware
    /\ Len(yielded) > 1
    /\ yielded[2].aware
    /\ yielded[2].off = ZoneInfo(timeArgs[1].default_timezone)[1]

(***************************************************************************)
(* Claims about TimeSpecification.parse_interval (SpecParse).              *)
(***************************************************************************)
\* The string is exactly a non-empty run of decimal digits and one letter.
DigitsThenLetter(str, letter) ==
    /\ Len(str) >= 2
    /\ \A i \in 1..(Len(str) - 1) : IsDigit(str[i])
    /\ str[Len(str)] = letter

\* C15: parse_interval returns N minutes for a string that is exactly a
\* non-empty run of decimal digits N followed by "m" and N hours for digits
\* followed by "h"; every other string, one with any extra trailing
\* character included, fails with an error.
C15_ParseInterval ==
    parsed # None
        => LET str == intervalStr[1]
               N == IntOf(SubSeq(str, 1, Len(str) - 1))
           IN IF DigitsThenLetter(str, "m")
              THEN parsed[1].error = "" /\ parsed[1].value = Some(N)
              ELSE IF DigitsThenLetter(str, "h")
              THEN parsed[1].error = "" /\ parsed[1].value = Some(60 * N)
              ELSE parsed[1].error # "" /\ parsed[1].value = None

(***************************************************************************)
(* Claims about ShadowCalculator.calculate (SpecCalc).                     *)
(***************************************************************************)
\* C16: when calculate returns, it returns one list per timestamp of
\* time_spec.get_times(), in the same increasing time order; the list of a
\* timestamp holds exactly one Shadow per wall, in the order of the walls
\* list, each with that timestamp and that wall.
C16_OneListPerTimestamp ==
    calc.state = "returned"
        => LET walls == calcArgs[1].walls
               times == yielded
           IN /\ gen.state = "done"
              /\ Len(calc.results) = Len(times)
              /\ \A k \in 1..(Len(times) - 1) :
                    Instant(times[k]) < Instant(times[k + 1])
              /\ \A k \in 1..Len(calc.results) :
                    /\ Len(calc.results[k]) = Len(walls)
                    /\ \A j \in 1..Len(walls) :
                          /\ calc.results[k][j].time = times[k]
                          /\ calc.results[k][j].wall = walls[j]
                          /\ Len(calc.results[k][j].vertices) = 4

\* calculate has returned the Shadows of two different walls at two
\* timestamps.
C16_Witness ==
    /\ calc.state = "returned"
    /\ Len(calc.results) = 2
    /\ Len(calc.results[2]) = 2
    /\ calc.results[2][1].wall # calc.results[2][2].wall
    /\ calc.results[1][1].time # calc.results[2][1].time

\* C17: when calculate fails, it fails before any sun position has been
\* requested for a timestamp and before any Shadow has been computed: never
\* after part of the (wall, timestamp) pairs has been processed.
C17_FailsBeforeAnyWork ==
    calc.state = "raised"
        => /\ calc.sunRequests = 0
           /\ calc.shadowCalls = 0
           /\ calc.results = <<>>
           /\ calc.shadows = <<>>

(***************************************************************************)
(* Claims about Area.contains_point (SpecArea).                            *)
(***************************************************************************)
\* Twice the signed area of the triangle a, b, p: positive when p lies to
\* the left of the line from a to b.
Cross(a, b, p) == (b.x - a.x) * (p.y - a.y) - (b.y - a.y) * (p.x - a.x)

\* The vertex k of an area as a point, in milli.
VertexPoint(area, k) ==
    Point(1000 * area.vertices[k][1], 1000 * area.vertices[k][2])

\* p lies on the edge from a to b.
OnSegment(a, b, p) ==
    /\ Cross(a, b, p) = 0
    /\ (a.x <= p.x /\ p.x <= b.x) \/ (b.x <= p.x /\ p.x <= a.x)
    /\ (a.y <= p.y /\ p.y <= b.y) \/ (b.y <= p.y /\ p.y <= a.y)

OnBoundary(area, p) ==
    \E k \in 1..Len(area.vertices) :
        OnSegment(VertexPoint(area, k),
                  VertexPoint(area, (k % Len(area.vertices)) + 1), p)

\* p lies in the closed triangle a, b, c (a segment if two corners agree).
InTriangle(a, b, c, p) ==
    /\ \/ Cross(a, b, p) >= 0 /\ Cross(b, c, p) >= 0 /\ Cross(c, a, p) >= 0
       \/ Cross(a, b, p) <= 0 /\ Cross(b, c, p) <= 0 /\ Cross(c, a, p) <= 0
    /\ \E q \in {a, b, c} : q.x <= p.x
    /\ \E q \in {a, b, c} : q.x >= p.x
    /\ \E q \in {a, b, c} : q.y <= p.y
    /\ \E q \in {a, b, c} : q.y >= p.y

\* p lies in one of the triangles that join the first vertex with the
\* other edges of the polygon.
InFan(area, p) ==
    \E k \in 2..(Len(area.vertices) - 1) :
        InTriangle(VertexPoint(area, 1), VertexPoint(area, k),
                   VertexPoint(area, k + 1), p)

StrictlyInside(area, p) == InFan(area, p) /\ ~OnBoundary(area, p)
StrictlyOutside(area, p) == ~InFan(area, p) /\ ~OnBoundary(area, p)

\* The edges of the polygon that the horizontal ray from p towards larger
\* x crosses: those with one end above the ray's line and the other on or
\* below it, which meet that line to the right of p.
EdgesCrossed(area, p) ==
    { k \in 1..Len(area.vertices) :
        LET a == VertexPoint(area, k)
            b == VertexPoint(area, (k % Len(area.vertices)) + 1)
            lo == IF a.y <= b.y THEN a ELSE b
            hi == IF a.y <= b.y THEN b ELSE a
        IN /\ lo.y <= p.y /\ p.y < hi.y
           /\ Cross(lo, hi, p) > 0 }

Shoelace4(a, b, c, d) ==
    (a.x * b.y - b.x * a.y) + (b.x * c.y - c.x * b.y)
    + (c.x * d.y - d.x * c.y) + (d.x * a.y - a.x * d.y)

\* C19: Shadow.area is half the absolute value of the shoelace sum over
\* the 4 vertices in order, with wraparound from the last to the first; it
\* is 50 for the vertices (0,0),(10,0),(10,5),(0,5) and never negative,
\* whatever the order of the vertices.
C19_ShoelaceArea ==
    quadArea # None
        => LET v == quadShadow[1].vertices
               twice == Shoelace4(v[1], v[2], v[3], v[4])
           IN /\ Len(v) = 4
              /\ quadArea[1] = (IF twice < 0 THEN -twice ELSE twice) \div 2
              /\ quadArea[1] >= 0
              /\ v = << Point(0, 0), Point(10000, 0), Point(10000, 5000),
                        Point(0, 5000) >>
                    => quadArea[1] = 50 * 1000000

\* The area of the Shadow (0,0),(10,0),(10,5),(0,5) has been read as 50,
\* the last edge, from (0,5) back to (0,0), counted.
C19_Witness ==
    /\ quadShadow # None
    /\ quadShadow[1].vertices
         = << Point(0, 0), Point(10000, 0), Point(10000, 5000),
              Point(0, 5000) >>
    /\ quadArea = Some(50 * 1000000)

(***************************************************************************)
(* Claims about UnitConverter (SpecUnit).                                  *)
(***************************************************************************)
\* The name is a supported unit name in some mix of upper and lower case.
SupportedInAnyCase(unit) ==
    \E name \in DOMAIN UNIT_CONVERSIONS :
        /\ Len(unit) = Len(name)
        /\ \A i \in 1..Len(name) :
              \/ unit[i] = name[i]
              \/ \E k \in 1..Len(LowerChars) :
                    LowerChars[k] = name[i] /\ UpperChars[k] = unit[i]

\* 1e-6, the tolerance of the round trip
Tolerance == ValueScale \div 1000000

WallBearing == calculate_wall_direction(shadowCall[1].wall)

\* The call takes the parallel branch: the sun's bearing, less the wall's,
\* modulo 360, is within the default tolerance of 0 or of 180.
ParallelBranch ==
    LET diff == (shadowCall[1].solar_azimuth - WallBearing) % 360
    IN diff <= DefaultTolerance \/ Abs(diff - 180) <= DefaultTolerance

Midpoint(p, q) == Point((p.x + q.x) \div 2, (p.y + q.y) \div 2)

\* C21: in the general (non-parallel) case calculate_shadow_vertices
\* returns exactly the four points [start, end, end + displacement,
\* start + displacement]; the list does not repeat the start at its end.
C21_GeneralFourPoints ==
    (ShadowEnded /\ ~ParallelBranch)
        => LET w == shadowCall[1].wall
           IN vertices = << w.start_point, w.end_point,
                            Plus(w.end_point, Displacement),
                            Plus(w.start_point, Displacement) >>

C24_BoundaryGeneral ==
    (/\ ShadowEnded
     /\ shadowCall[1].wall.start_point # shadowCall[1].wall.end_point
     /\ WallBearing = 0
     /\ shadowCall[1].solar_azimuth = 180 - DefaultTolerance)
        => LET w == shadowCall[1].wall
           IN /\ vertices[3] = Plus(w.end_point, Displacement)
              /\ vertices[4] = Plus(w.start_point, Displacement)

\* C24, as the code has it: for a wall of bearing 0, a sun bearing of
\* exactly 180 - tolerance selects the parallel branch (the boundary is
\* inclusive): the vertices are [start, end, midpoint + displacement,
\* start].
C24_BoundaryParallel ==
    (/\ ShadowEnded
     /\ shadowCall[1].wall.start_point # shadowCall[1].wall.end_point
     /\ WallBearing = 0
     /\ shadowCall[1].solar_azimuth = 180 - DefaultTolerance)
        => LET w == shadowCall[1].wall
           IN vertices = << w.start_point, w.end_point,
                            Plus(Midpoint(w.start_point, w.end_point),
                                 Displacement),
                            w.start_point >>

\* A call for a wall due north with the sun at 180 - tolerance has ended
\* with four vertices.
C24_Witness ==
    /\ ShadowEnded
    /\ shadowCall[1].wall.start_point # shadowCall[1].wall.end_point
    /\ WallBearing = 0
    /\ shadowCall[1].solar_azimuth = 180 - DefaultTolerance
    /\ Len(vertices) = 4
    /\ vertices[4] = shadowCall[1].wall.start_point

(***************************************************************************)
(* Claims about the geometry helpers called on their own (SpecGeom).       *)
(***************************************************************************)
\* The call of the helper has returned.
GeomEnded(helper) ==
    geomCall # None /\ geomCall[1].helper = helper /\ geomResult # None

\* The circular angular separation of two bearings: the smaller of
\* (s - w) mod 360 and (w - s) mod 360.
Separation(s, w) ==
    LET a == (s - w) % 360
        b == (w - s) % 360
    IN IF a <= b THEN a ELSE b

\* C23: for all wall bearings w, sun bearings s in [0, 360) and tolerances
\* t, is_sun_parallel answers true exactly when the circular separation of
\* s and w is at most t or differs from 180 by at most t; the answer is
\* the same for s = w + d and s = w - d, and a separation of exactly t is
\* parallel.
C23_CircularSeparation ==
    GeomEnded("is_sun_parallel")
        => LET w == geomCall[1].wall_direction
               t == geomCall[1].tolerance_degrees
               s == (geomCall[1].shadow_direction + 180) % 360
               mirrored == (w - (s - w)) % 360
               sep == Separation(s, w)
           IN /\ geomResult[1] <=> (sep <= t \/ Abs(sep - 180) <= t)
              /\ geomResult[1] <=>
                    is_sun_parallel(w, (mirrored + 180) % 360, t)
              /\ sep = t => geomResult[1]

\* The elevation, in thousandths of a degree, is below 0.001 rad.
BelowThreshold(e) == e * 17453 < 1000000

Reversed(wall) ==
    Wall(wall.name, wall.height, wall.end_point, wall.start_point)

\* C26: calculate_wall_direction returns a bearing in [0, 360) for every
\* wall with start # end: 0 for a wall due north, 90 for a wall due east,
\* and reversing the wall changes the bearing by exactly 180 modulo 360.
C26_BearingInRange ==
    (/\ GeomEnded("calculate_wall_direction")
     /\ geomCall[1].wall.start_point # geomCall[1].wall.end_point)
        => LET w == geomCall[1].wall
               dx == w.end_point.x - w.start_point.x
               dy == w.end_point.y - w.start_point.y
               straight == LowX(w.end_point) = LowX(w.start_point)
           IN /\ geomResult[1] \in 0..359
              /\ (straight /\ dx = 0 /\ dy > 0) => geomResult[1] = 0
              /\ (straight /\ dy = 0 /\ dx > 0) => geomResult[1] = 90
              /\ (calculate_wall_direction(Reversed(w)) - geomResult[1])
                    % 360 = 180

(***************************************************************************)
(* Claims about the statistics of the sun position cache (SpecSun).        *)
(***************************************************************************)
Min(a, b) == IF a <= b THEN a ELSE b

\* C27: after any sequence of get_position and clear_cache calls, hits +
\* misses is the number of get_position calls since the last clear_cache
\* that had a timezone-aware time and no override; the size is the number
\* of distinct keys inserted since that clear, capped at the capacity;
\* clear_cache sets hits, misses and size to 0, and the next call without
\* override is a miss.
C27_CacheStatistics ==
    /\ [](hits + misses = lookups)
    /\ [](Len(cache) = Min(Len(recent), CACHE_SIZE))
    /\ [](sunCall.kind = "clear"
            => (hits = 0 /\ misses = 0 /\ Len(cache) = 0))
    /\ [][ (sunCall.kind = "clear" /\ LookedUp(sunCall'))
             => (sunCall'.event = "miss" /\ misses' = 1 /\ hits' = 0) ]_vars

\* A clear_cache call has emptied a full cache, and since then more
\* distinct keys than the cache holds have been looked up, with hits and
\* misses among the calls.
C27_Witness ==
    /\ dropped = CACHE_SIZE
    /\ Len(recent) > CACHE_SIZE
    /\ Len(cache) = CACHE_SIZE
    /\ hits >= 1
    /\ misses > CACHE_SIZE
    /\ hits + misses = lookups

(***************************************************************************)
(* Claims about the division and the boundary in contains_point (SpecArea).*)
(***************************************************************************)
\* Vertex k of the area's closed vertex list (the first vertex follows the
\* last), in milli.
ClosedVertex(area, k) == VertexPoint(area, ((k - 1) % Len(area.vertices)) + 1)

\* C28: contains_point never divides by zero, for any polygon and point:
\* the quotient with the divisor y[i+1] - y[i] is computed only for edges
\* whose two end points lie on opposite sides of the point's y, so that
\* horizontal edges and repeated vertices are skipped.
C28_NoDivisionByZero ==
    /\ areaError = ""
    /\ \A i \in 1..Len(quotients) :
          LET a == ClosedVertex(areaCall[1].area, quotients[i])
              b == ClosedVertex(areaCall[1].area, quotients[i] + 1)
              py == areaCall[1].point.y
          IN /\ b.y - a.y # 0
             /\ a # b
             /\ \/ a.y > py /\ b.y <= py
                \/ b.y > py /\ a.y <= py

\* The square with a repeated vertex has been asked about a point level
\* with its lower edge and the repeated vertex; the call has computed the
\* quotient for two edges and has answered.
C28_Witness ==
    /\ areaCall # None
    /\ areaCall[1].area.name = "repeated"
    /\ areaCall[1].point = Point(5000, 0)
    /\ Len(quotients) = 2
    /\ Len(contained) >= 1
    /\ areaError = ""

\* The area is a rectangle with sides along the axes, from (x0, y0) to
\* (x1, y1), its four corners listed in order around it.
IsRectangle(area, x0, y0, x1, y1) ==
    /\ Len(area.vertices) = 4
    /\ x0 < x1 /\ y0 < y1
    /\ { VertexPoint(area, k) : k \in 1..4 }
          = { Point(x0, y0), Point(x1, y0), Point(x1, y1), Point(x0, y1) }
    /\ \A k \in 1..4 :
          LET a == ClosedVertex(area, k)
              b == ClosedVertex(area, k + 1)
          IN a.x = b.x \/ a.y = b.y

\* The least and the greatest coordinates of the vertices, in milli.
MinOf(S) == CHOOSE m \in S : \A n \in S : m <= n
MaxOf(S) == CHOOSE m \in S : \A n \in S : m >= n

\* C29: for a rectangle with sides along the axes, contains_point treats
\* the boundary as half open: a point on the left or the bottom edge
\* (without their upper and right ends) is inside, a point on the right or
\* the top edge is outside.
C29_HalfOpenBoundary ==
    \A q \in 1..Len(contained) :
        LET area == areaCall[1].area
            p == areaCall[1].point
            xs == { VertexPoint(area, k).x : k \in 1..Len(area.vertices) }
            ys == { VertexPoint(area, k).y : k \in 1..Len(area.vertices) }
            x0 == MinOf(xs)
            x1 == MaxOf(xs)
            y0 == MinOf(ys)
            y1 == MaxOf(ys)
        IN IsRectangle(area, x0, y0, x1, y1)
             => /\ (p.x = x0 /\ y0 <= p.y /\ p.y < y1) => contained[q]
                /\ (p.y = y0 /\ x0 <= p.x /\ p.x < x1) => contained[q]
                /\ (p.x = x1 /\ y0 <= p.y /\ p.y <= y1) => ~contained[q]
                /\ (p.y = y1 /\ x0 <= p.x /\ p.x <= x1) => ~contained[q]

\* The rectangle from (2, 3) to (12, 8) has been asked about the point
\* (12, 5) on its right edge and has answered false.
C29_Witness ==
    /\ areaCall # None
    /\ areaCall[1].area.name = "rectangle"
    /\ areaCall[1].point = Point(12000, 5000)
    /\ contained # <<>>
    /\ ~contained[1]

(***************************************************************************)
(* Claims about Area.area and Shadow.area in floating point (SpecPoly).    *)
(***************************************************************************)
\* The sum of the magnitudes of the products of the shoelace formula for
\* the chosen vertex list; it is the same for every order of the list.
RECURSIVE ProductMass(_, _)
ProductMass(l, i) ==
    IF i > Len(l) THEN 0
    ELSE LET a == l[i]
             b == l[(i % Len(l)) + 1]
         IN Abs(a[1] * b[2]) + Abs(b[1] * a[2]) + ProductMass(l, i + 1)

\* The areas read from the class Area.
AreaReadings == { r \in polyAreas : r.class = "Area" }

\* C30 as stated: Area.area is the same for the list as given, rotated
\* and reversed, and for 4 vertices equal to Shadow.area over the same
\* points in the same order.
C30_AreaOrderExact ==
    \A r1 \in polyAreas, r2 \in polyAreas : r1.area = r2.area

\* C30 as it holds in floating point: every area read is non-negative;
\* the areas of the list as given, rotated and reversed, and for 4
\* vertices Shadow.area over the same points, differ by no more than the
\* rounding of the 2n products and the sums can account for, which is
\* (4n + 4) / 2^MantissaBits of half the sum of the products' magnitudes;
\* they are equal where that sum stays below 2^MantissaBits, so that every
\* product and every sum is exact.
C30_AreaOrderRounded ==
    LET l == polyVertices[1]
        mass == ProductMass(l, 1)
    IN /\ \A r \in polyAreas : r.area >= 0
       /\ \A r1 \in polyAreas, r2 \in polyAreas :
             /\ Pow2(MantissaBits) * 2 * Abs(r1.area - r2.area)
                  <= (4 * Len(l) + 4) * mass
             /\ mass < Pow2(MantissaBits) => r1.area = r2.area

\* All six areas of the list (30,880), (400,480), (970,280), (760,780)
\* have been read: that of the list as given differs from that of a
\* rotation, from that of the reversed list and from that of the Shadow.
C30_Witness ==
    /\ polyVertices = Some(<< <<30, 880>>, <<400, 480>>, <<970, 280>>,
                              <<760, 780>> >>)
    /\ Cardinality(polyAreas) = 6
    /\ \E g \in AreaReadings :
          /\ g.order = "given"
          /\ \E r \in AreaReadings : r.order = "rotated" /\ r.area # g.area
          /\ \E r \in AreaReadings : r.order = "reversed" /\ r.area # g.area
          /\ \E r \in polyAreas : r.class = "Shadow" /\ r.area # g.area

=============================================================================
